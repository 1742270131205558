------------------------------ MODULE MCReqResp ------------------------------
(* Model values for ReqResp. *)
EXTENDS ReqResp
CONSTANTS c1, d1, d2
MCCalls == {c1}
MCDigests == {d1, d2}
=============================================================================
