------------------------------ MODULE SdDriver -------------------------------
(***************************************************************************)
(* The SD driver: the card is brought up once (SdCard), by the first       *)
(* process that runs, and then serves the queue of requests (SdQueue).     *)
(***************************************************************************)
EXTENDS SdQueue, SdCard

DInit == Init /\ CardInit

DNext ==
    \/ CardNext /\ UNCHANGED vars
    \/ stage = "ready" /\ Next /\ UNCHANGED cardvars

Serving == stage = "ready" /\ ~stopped

DSpec ==
    /\ DInit /\ [][DNext]_<<vars, cardvars>>
    /\ WF_cardvars(CardNext)
    /\ \A t \in Thread : WF_vars(Serving /\ Step(t) /\ UNCHANGED cardvars)
    /\ WF_vars(Serving /\ card_done /\ UNCHANGED cardvars)
    /\ SF_vars(Serving /\ sd_intr /\ UNCHANGED cardvars)
=============================================================================
