------------------------------ MODULE ScanGuard ------------------------------
(***************************************************************************)
(* The budget of a remote scan: GuardedTableProvider refuses to scan a     *)
(* table whose statistics say that it would yield too many rows or bytes.  *)
(* Statistics are [rows, bytes], each None if it is not known.             *)
(***************************************************************************)
EXTENDS Integers

CONSTANTS
  MaxRows,   \* ScanBudget.max_rows
  MaxBytes,  \* ScanBudget.max_bytes
  MaxUsize,  \* usize::MAX
  None

SaturatingMul(a, b) == IF a * b > MaxUsize THEN MaxUsize ELSE a * b

\* Rows that a scan reads at most.
EffectiveRows(stats, limit) ==
  CASE stats.rows = None -> None
    [] limit = None -> stats.rows
    [] OTHER -> IF stats.rows < limit THEN stats.rows ELSE limit

\* estimate_effective_bytes: the share of the bytes that the limit's rows have.
EffectiveBytes(stats, limit) ==
  CASE stats.rows = None \/ stats.bytes = None -> None
    [] limit = None \/ stats.rows = 0 -> stats.bytes
    [] stats.rows <= limit -> stats.bytes
    [] OTHER -> SaturatingMul(stats.bytes, limit) \div stats.rows

Exceeds(estimate, budget) == estimate # None /\ estimate > budget

\* check_budget: what is not known is not refused.
WithinBudget(stats, limit) ==
  stats # None =>
    /\ ~Exceeds(EffectiveRows(stats, limit), MaxRows)
    /\ ~Exceeds(EffectiveBytes(stats, limit), MaxBytes)
=============================================================================
