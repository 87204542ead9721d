------------------------------ MODULE AuditLog ------------------------------
(***************************************************************************)
(* What the audit chain promises whoever reads it, without statements,     *)
(* locks, savepoints or retries: a log that only grows, by all the entries *)
(* of one transaction at once, one behind the other at its end, each with  *)
(* the hash of the one before.                                             *)
(***************************************************************************)
EXTENDS Naturals

CONSTANTS Writers,    \* who appends
          Genesis     \* the hash before the first entry

VARIABLE log          \* entries [seq, by, prev, hash]

Init == log = {}

\* Numbered from one, each number once, each entry with the hash of the last.
Chained(rows) ==
  /\ \A e, f \in rows : e.seq = f.seq => e = f
  /\ \A e \in rows :
       \/ e.seq = 1 /\ e.prev = Genesis
       \/ \E f \in rows : e.seq = f.seq + 1 /\ e.prev = f.hash

\* What w has written stands behind everything that was there.
Append(w) ==
  /\ log \subseteq log'
  /\ \A e \in log' \ log : e.by = w /\ \A f \in log : f.seq < e.seq
  /\ Chained(log')

Next == \E w \in Writers : Append(w)

Spec == Init /\ [][Next]_log
=============================================================================
