----------------------------- MODULE SearchKeys -----------------------------
(***************************************************************************)
(* The search keys: ingestion.search_keys.run searches a number of those   *)
(* due and enqueues itself while any is left; the schedule enqueues it     *)
(* daily.  One run at a time (two would only search a key twice).  Keys    *)
(* are numbered in the order of listSearchKeysForRun; time is the number   *)
(* of days until a key is due.                                             *)
(***************************************************************************)
EXTENDS Naturals, FiniteSets

CONSTANTS
  NKeys,       \* search keys
  KeyLimit,    \* keys per run, 300
  KeyPause,    \* days until a searched key is due again, 30 or 90
  MaxSwitches, \* bound on terms switched on and off
  MaxKeyFaults \* bound on crashes

ASSUME SearchKeysAssumption ==
  {NKeys, MaxSwitches, MaxKeyFaults} \subseteq Nat /\ {KeyLimit, KeyPause} \subseteq Nat \ {0}

KeyIds == 1..NKeys

VARIABLES
  key,       \* ingestion_search_keys
  inactive,  \* keys whose term a person has switched off
  keyJobs,   \* jobs ingestion.search_keys.run pending
  keyTodo,   \* keys the run under way has listed and not searched
  keyRun,    \* a run is under way
  switches, keyFaults

searchKeysVars == <<key, inactive, keyJobs, keyTodo, keyRun, switches, keyFaults>>

SearchKey == [there : BOOLEAN, pending : BOOLEAN, due : 0..KeyPause]

SearchKeysTypeOK ==
  /\ key \in [KeyIds -> SearchKey] /\ inactive \subseteq KeyIds
  /\ keyJobs \in 0..2 /\ keyTodo \subseteq KeyIds /\ keyRun \in BOOLEAN
  /\ switches \in 0..MaxSwitches /\ keyFaults \in 0..MaxKeyFaults

SearchKeysInit ==
  /\ key = [k \in KeyIds |-> [there |-> FALSE, pending |-> TRUE, due |-> 0]]
  /\ inactive = {} /\ keyJobs = 0 /\ keyTodo = {} /\ keyRun = FALSE
  /\ switches = 0 /\ keyFaults = 0

KeyFault == keyFaults < MaxKeyFaults /\ keyFaults' = keyFaults + 1

\* The first n of S in the order of the list.
FirstKeys(S, n) == {x \in S : Cardinality({y \in S : y < x}) < n}

\* ingestion.search_keys.seed: INSERT IGNORE of the keys of the active terms.
SeedKeys ==
  /\ \E k \in KeyIds \ inactive : ~key[k].there
  /\ key' = [k \in KeyIds |-> IF k \in inactive THEN key[k] ELSE [key[k] EXCEPT !.there = TRUE]]
  /\ UNCHANGED <<inactive, keyJobs, keyTodo, keyRun, switches, keyFaults>>

\* PATCH of a search term
SwitchTerm(k) ==
  /\ switches < MaxSwitches /\ switches' = switches + 1
  /\ inactive' = IF k \in inactive THEN inactive \ {k} ELSE inactive \cup {k}
  /\ UNCHANGED <<key, keyJobs, keyTodo, keyRun, keyFaults>>

KeyIsDue(k) == key[k].there /\ k \notin inactive /\ (key[k].pending \/ key[k].due = 0)

\* listSearchKeysForRun: those never searched come first.
ListKeys ==
  LET new == {k \in KeyIds : KeyIsDue(k) /\ key[k].pending}
      again == {k \in KeyIds : KeyIsDue(k)} \ new IN
  /\ keyJobs > 0 /\ ~keyRun
  /\ keyJobs' = keyJobs - 1 /\ keyRun' = TRUE
  /\ keyTodo' = FirstKeys(new, KeyLimit) \cup
                (IF Cardinality(new) < KeyLimit THEN FirstKeys(again, KeyLimit - Cardinality(new)) ELSE {})
  /\ UNCHANGED <<key, inactive, switches, keyFaults>>

\* Searched, or not: an error is tried again the next day.
SearchOneKey(k, ok) ==
  /\ keyRun /\ k \in keyTodo
  /\ keyTodo' = keyTodo \ {k}
  /\ key' = [key EXCEPT ![k].pending = FALSE, ![k].due = IF ok THEN KeyPause ELSE 1]
  /\ UNCHANGED <<inactive, keyJobs, keyRun, switches, keyFaults>>

\* hasDueSearchKeys: another run takes up the rest.
KeyRunEnds ==
  /\ keyRun /\ keyTodo = {}
  /\ keyRun' = FALSE
  /\ keyJobs' = IF keyJobs < 2 /\ \E k \in KeyIds : KeyIsDue(k) THEN keyJobs + 1 ELSE keyJobs
  /\ UNCHANGED <<key, inactive, keyTodo, switches, keyFaults>>

KeyRunCrash ==
  /\ keyRun /\ KeyFault
  /\ keyRun' = FALSE /\ keyTodo' = {}
  /\ keyJobs' = IF keyJobs < 2 THEN keyJobs + 1 ELSE keyJobs
  /\ UNCHANGED <<key, inactive, switches>>

\* The next day: the runs of a day end within it, the schedule enqueues anew.
NextDayOfKeys ==
  /\ keyJobs = 0 /\ ~keyRun
  /\ keyJobs' = 1
  /\ key' = [k \in KeyIds |-> [key[k] EXCEPT !.due = IF @ > 0 THEN @ - 1 ELSE @]]
  /\ UNCHANGED <<inactive, keyTodo, keyRun, switches, keyFaults>>

KeyStep == ListKeys \/ KeyRunEnds \/ \E k \in KeyIds, ok \in BOOLEAN : SearchOneKey(k, ok)

SearchKeysNext ==
  \/ SeedKeys \/ KeyStep \/ KeyRunCrash \/ NextDayOfKeys
  \/ \E k \in KeyIds : SwitchTerm(k)

-----------------------------------------------------------------------------
(* Properties.                                                             *)

\* Every search key of an active term that is due has its turn: keys that fail
\* every day do not keep the runs at the head of the list.
KeysComeRound == \A k \in KeyIds : []<>~KeyIsDue(k)
=============================================================================
