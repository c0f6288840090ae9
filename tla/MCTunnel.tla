------------------------------ MODULE MCTunnel ------------------------------
(* Bounds for Tunnel: three calls out of four.  One operation of two       *)
(* keyhandles, whose reply takes two pieces, and a short one that does not *)
(* know the length of its reply; a derive whose reply takes two pieces     *)
(* under v2 (X-Wing, which only those keys have); a connect.  Packet       *)
(* numbers wrap after two.  A second part, apart from it, is CtapHid, which *)
(* carries its requests: one client, a bridge or okcrypto's, with two long *)
(* requests, alike and so begun in one order, and a short one; or a client *)
(* of each kind with a request each.  A behaviour is of one of the two.    *)
EXTENDS Tunnel, CtapHid

CONSTANTS op1, op2, d1, n1, bridge, own, r1, r2, r3, Parts

MCOp == {op1, op2}
MCDerive == {d1}
MCConnects == {n1}
MCChunks == [c \in Op |-> IF c = op1 THEN 2 ELSE 1]
MCSize == [c \in Op \cup Derive |-> IF c \in {op1, d1} THEN 3 ELSE 1]
MCVariable == {op2}
MCNoise == {0, 1, MaxPacket}

MCOne == {own}
MCEither == {{}, {own}}
MCThree == {r1, r2, r3}
MCClients == {bridge, own}
MCBridge == {{bridge}}
MCOneEach == {r1, r3}
MCOwner == [r \in Request |-> IF r = r3 /\ bridge \in Client THEN bridge ELSE own]
MCLong == {r1, r2} \cap Request

VARIABLE part
mcvars == <<part, vars, hidVars>>

MCInit ==
  /\ part \in Parts /\ Init /\ HidInit
  /\ part = "hid" => dev.version = "v1"
  /\ part = "tunnel" => bridges = CHOOSE b \in Roles : TRUE

MCNext ==
  \/ part = "tunnel" /\ Next /\ UNCHANGED <<hidVars, part>>
  \/ /\ part = "hid" /\ HidNext /\ UNCHANGED <<vars, part>>
     /\ Long = {r1, r2} => (at'[r1] = "new" => at'[r2] = "new")

(* Less than the fairness of each part's own specification: only that some *)
(* step of the host's is taken, whichever, while one goes on being there.  *)
MCFairness ==
  /\ WF_vars(/\ part = "tunnel"
             /\ \E c \in Conv :
                  \/ Release(c) \/ Settle(c) \/ Finish(c)
                  \/ ConnectTunnel(c) \/ KeepSession(c) \/ SendDerive(c)
                  \/ SendChunk(c) \/ SendFails(c)
                  \/ GiveUp(c) \/ (Poll(c) /\ got' # got))
  /\ WF_moving(/\ part = "hid"
               /\ \E r \in Request :
                    HearInit(r) \/ WritePacket(r) \/ Read(r) \/ CallbackDone(r) \/ Timeout(r))

MCSpec == MCInit /\ [][MCNext]_mcvars /\ MCFairness
=============================================================================
