----------------------------- MODULE MCSession -----------------------------
(***************************************************************************)
(* Session for TLC: one tab shows a room, with a hook of either fetcher,   *)
(* the other one a page that only checks for a session.                    *)
(***************************************************************************)
EXTENDS Session, TLC

CONSTANTS t1, t2, rooms, climate

MCMounted == t1 :> {rooms, climate} @@ t2 :> {}
=============================================================================
