------------------------------ MODULE MCEndpoint ------------------------------
(* A dialer, a relay and a target: side a of the dialer faces r of the relay, *)
(* whose other side q faces b of the target.                                  *)
EXTENDS Endpoint, TLC

MCSide == {"a", "r", "q", "b"}
MCFar == "a" :> "r" @@ "r" :> "a" @@ "q" :> "b" @@ "b" :> "q"
MCBeside == "a" :> "a" @@ "r" :> "q" @@ "q" :> "r" @@ "b" :> "b"

===============================================================================
