----------------------------- MODULE UuidTicks -----------------------------
(***************************************************************************)
(* uuid_generate (stubs/src/stub_sys.c:79-86) by several threads: a static *)
(* counter is stepped twice without a lock, each time read and written,    *)
(* around two numbers of the host's random, which promises nothing.        *)
(***************************************************************************)
EXTENDS Integers, Sequences, FiniteSets

CONSTANTS Threads,
          Randoms,   \* pairs of numbers random may give, again and again
          Wrap,      \* the counter's values that a word of an identifier tells apart
          MaxUuids   \* bound on the identifiers

UuidAssumption == Wrap \in Nat \ {0} /\ MaxUuids \in Nat

VARIABLES ticking,  \* the counter
          raced,    \* a call began while another was in progress
          pc, seen, \* of each thread: the next step, and the counter as it read it
          out,      \* the words it has written
          uuids     \* the identifiers made, in order

vars == <<ticking, raced, pc, seen, out, uuids>>

Init == /\ ticking = 0 /\ raced = FALSE
        /\ pc = [t \in Threads |-> "idle"]
        /\ seen = [t \in Threads |-> 0]
        /\ out = [t \in Threads |-> << >>]
        /\ uuids = << >>

InProgress == {t \in Threads : pc[t] # "idle"}

\* One of the two steps ++ticking, in halves; the word is cut to its width.
ReadTicking(t, from, to) == /\ pc[t] = from /\ pc' = [pc EXCEPT ![t] = to]
                            /\ seen' = [seen EXCEPT ![t] = ticking]
                            /\ UNCHANGED <<ticking, out, uuids>>

\* Variant with a plausible bug: the counter is not stepped, only its word.
WriteTickingKeeps(t, from, to) ==
    /\ pc[t] = from /\ pc' = [pc EXCEPT ![t] = to]
    /\ out' = [out EXCEPT ![t] = Append(@, (seen[t] + 1) % Wrap)]
    /\ UNCHANGED <<ticking, raced, seen, uuids>>

WriteTicking(t, from, to) == /\ pc[t] = from /\ pc' = [pc EXCEPT ![t] = to]
                             /\ ticking' = seen[t] + 1
                             /\ out' = [out EXCEPT ![t] = Append(@, (seen[t] + 1) % Wrap)]
                             /\ UNCHANGED <<raced, seen, uuids>>

Call(t) == /\ Len(uuids) + Cardinality(InProgress) < MaxUuids
           /\ raced' = (raced \/ InProgress # {})
           /\ ReadTicking(t, "idle", "tick")

Roll(t) == /\ pc[t] = "roll" /\ pc' = [pc EXCEPT ![t] = "again"]
           /\ \E r \in Randoms : out' = [out EXCEPT ![t] = Append(@, r)]
           /\ UNCHANGED <<ticking, raced, seen, uuids>>

Return(t) == /\ pc[t] = "done" /\ pc' = [pc EXCEPT ![t] = "idle"]
             /\ uuids' = Append(uuids, out[t])
             /\ out' = [out EXCEPT ![t] = << >>]
             /\ UNCHANGED <<ticking, raced, seen>>

Next == \E t \in Threads :
           \/ Call(t) \/ WriteTicking(t, "tick", "roll") \/ Roll(t)
           \/ ReadTicking(t, "again", "tock") /\ UNCHANGED raced
           \/ WriteTicking(t, "tock", "done")
           \/ Return(t)

Spec == Init /\ [][Next]_vars

-----------------------------------------------------------------------------
\* Of two equal identifiers, whatever random gave, either the counter's words had
\* come round between them or calls had overlapped before: a race can set the
\* counter back, for later calls too that overlap with none
\* (stub_sys.c:79-86).
AllDiffer == \A i, j \in DOMAIN uuids :
                i < j /\ uuids[i] = uuids[j] => raced \/ 2 * (j - i) >= Wrap

=============================================================================
