----------------------------- MODULE MCAuditLog -----------------------------
(* Small instances of AuditLog: p1 restores and finishes, p2 works.       *)
EXTENDS AuditLog

CONSTANTS p1, p2, t1, s1

Duties == [n \in {p1, p2} |-> IF n = p1 THEN {"restore", "preview", "assign", "finish"}
                                        ELSE {"complete", "reopen", "finish"}]
Commits == [k \in {t1, s1} |-> IF k = t1 THEN 1 ELSE 0]
=============================================================================
