-------------------------------- MODULE MCTui --------------------------------
(* Tui for TLC.  It takes three exchanges for one to come while the cursor is *)
(* not on the last entry: of the three, the first is over when the runs start *)
(* and the UI has settled, which Spec reaches with nothing but its events.    *)
EXTENDS Tui

CONSTANTS x1, x2, x3

MCExchanges == {x1, x2, x3}

MCInit == /\ pc = [e \in Exchanges |-> IF e = x1 THEN "over" ELSE "idle"]
          /\ reqText = [e \in Exchanges |-> "none"]
          /\ respText = [e \in Exchanges |-> e = x1]
          /\ exited = FALSE
          /\ queue = <<>> /\ listening = 1 /\ inbox = {} /\ running = TRUE
          /\ entries = <<[id |-> x1, pending |-> FALSE, reqBody |-> FALSE, respBody |-> TRUE]>>
          /\ cursor = 0 /\ showDetail = FALSE /\ ready = FALSE
          /\ done = FALSE
          /\ content = Blank /\ atTop = TRUE

MCSpec == MCInit /\ [][Next]_vars /\ Fairness
=============================================================================
