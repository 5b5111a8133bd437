---------------------------- MODULE ExchangeLog ----------------------------
(***************************************************************************)
(* What the capture of exchanges promises, with no word of how it is done. *)
(*                                                                         *)
(* An exchange is given to the capture in two halves, a request and a      *)
(* response, in either order; or it is abandoned, because it will never    *)
(* have a response.  An exchange whose two halves have been given is       *)
(* written to the log, once, as the pair of exactly those halves; one that *)
(* is abandoned never is.                                                  *)
(*                                                                         *)
(* The log stands for either output of httpmon: the NDJSON file of         *)
(* --record or the entries of --har.                                       *)
(***************************************************************************)
EXTENDS Naturals, Sequences

CONSTANTS Ids,     \* request numbers
          Views,   \* what a captured half may carry
          Absent   \* a half that has not been given

VARIABLES givenReq,   \* request half of each exchange
          givenResp,  \* response half of each exchange
          abandoned,  \* exchanges that will never complete
          log         \* what has been written, in order

vars == <<givenReq, givenResp, abandoned, log>>

Half  == Views \cup {Absent}
Entry == [id : Ids, req : Views, resp : Views]

LoggedIds == {log[i].id : i \in 1 .. Len(log)}

Init == /\ givenReq  = [id \in Ids |-> Absent]
        /\ givenResp = [id \in Ids |-> Absent]
        /\ abandoned = {}
        /\ log = <<>>

GiveRequest(id, r) ==
  /\ givenReq[id] = Absent
  /\ givenReq' = [givenReq EXCEPT ![id] = r]
  /\ UNCHANGED <<givenResp, abandoned, log>>

GiveResponse(id, rs) ==
  /\ givenResp[id] = Absent
  /\ id \notin abandoned
  /\ givenResp' = [givenResp EXCEPT ![id] = rs]
  /\ UNCHANGED <<givenReq, abandoned, log>>

Abandon(id) ==
  /\ givenResp[id] = Absent
  /\ id \notin abandoned
  /\ abandoned' = abandoned \cup {id}
  /\ UNCHANGED <<givenReq, givenResp, log>>

Complete(id) == givenReq[id] # Absent /\ givenResp[id] # Absent

WriteEntry(id) ==
  /\ Complete(id)
  /\ id \notin LoggedIds
  /\ log' = Append(log, [id |-> id, req |-> givenReq[id], resp |-> givenResp[id]])
  /\ UNCHANGED <<givenReq, givenResp, abandoned>>

Next == \E id \in Ids :
          \/ \E v \in Views : GiveRequest(id, v) \/ GiveResponse(id, v)
          \/ Abandon(id)
          \/ WriteEntry(id)

Spec == Init /\ [][Next]_vars

\* Every complete exchange is written in the end.
FairSpec == Spec /\ \A id \in Ids : WF_vars(WriteEntry(id))
=============================================================================
