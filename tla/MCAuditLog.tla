------------------------------ MODULE MCAuditLog ------------------------------
(* Small instances of AuditLog: three emissions and a direct append, of an *)
(* actor with a history and of one without.                                *)
EXTENDS AuditLog, TLC

CONSTANTS e1, e2, e3, d1, known, fresh

OneFirstEvent == e1 :> known @@ e2 :> known @@ e3 :> fresh @@ d1 :> known
FirstEvents   == e1 :> fresh @@ e2 :> fresh @@ e3 :> known @@ d1 :> known
=============================================================================
