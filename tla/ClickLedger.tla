---------------------------- MODULE ClickLedger ----------------------------
(***************************************************************************)
(* What the recorder of internal/stats promises, without workers, batches  *)
(* or redelivery: a click on the stream gets its row once, and after that  *)
(* it either enters the daily count of its key, once, or is lost to it.    *)
(***************************************************************************)
EXTENDS Naturals, Sequences, FiniteSets

CONSTANTS Keys, Malformed

VARIABLES clicks,  \* the key of each click on the stream
          stage,   \* how far each click has come
          total    \* the daily count of each key

ledgerVars == <<clicks, stage, total>>

Stages == {"queued", "recorded", "counted", "lost"}

\* Counted and lost are final; a row is only ever written once.
Moves ==
  {<<"queued", "recorded">>, <<"queued", "lost">>,
   <<"recorded", "counted">>, <<"recorded", "lost">>}

Init ==
  /\ clicks = <<>>
  /\ stage = <<>>
  /\ total = [k \in Keys |-> 0]

Push(k) ==
  /\ clicks' = Append(clicks, k)
  /\ stage' = Append(stage, "queued")
  /\ UNCHANGED total

\* Some clicks move on; each count grows by the clicks of its key that were
\* counted in this step.
Advance ==
  /\ UNCHANGED clicks
  /\ DOMAIN stage' = DOMAIN stage
  /\ \A i \in DOMAIN stage :
       stage'[i] = stage[i] \/ <<stage[i], stage'[i]>> \in Moves
  /\ total' = [k \in Keys |->
       total[k] + Cardinality({i \in DOMAIN stage :
                     clicks[i] = k /\ stage'[i] = "counted" /\ stage[i] # "counted"})]

Next == Advance \/ \E k \in Keys \cup {Malformed} : Push(k)

Spec == Init /\ [][Next]_ledgerVars
=============================================================================
