------------------------------ MODULE TunnelKey ------------------------------
(***************************************************************************)
(* The key at the far end of the WebAuthn tunnel, as far as a stored-key   *)
(* request touches it.  The firmware is not in this repository: this is    *)
(* what test/helpers/fake-tunnel-device.js does in its place, with what    *)
(* the comments of okcrypto and chunk.js say of it.  Every operator takes  *)
(* the key before a request and gives the key after it with its reply.     *)
(*                                                                         *)
(* Lengths are counted in half response pieces: a full piece of 512 bytes  *)
(* is 2, a shorter one is 1.                                               *)
(***************************************************************************)
EXTENDS Naturals, Sequences

CONSTANT
  Noise            (* what v1's random byte leaves in the mark             *)

(* The keys there are: before 3.1.0 (transit v1), since then (v2), and our *)
(* builds of it, where a new request wipes a reply delivered whole.        *)
Version == {"v1", "v2", "v2 wiping"}

Full == 2

V2(d) == d.version # "v1"
WipesDelivered(d) == d.version = "v2 wiping"

(* What the key holds for collection: a result worked out from a payload   *)
(* and sealed under a transit key, the reply to an OKCONNECT, or a text.   *)
Nothing == [kind |-> "nothing", of |-> <<>>, key |-> 0, len |-> 0]
Text(what) == [kind |-> what, of |-> <<>>, key |-> 0, len |-> 1]

Fresh(version) ==
  [version |-> version, key |-> 0, staged |-> Nothing, cursor |-> 0, delivered |-> FALSE,
   mark |-> 0, packets |-> <<>>, asking |-> FALSE]

Stage(d, s) == [d EXCEPT !.staged = s, !.cursor = 0, !.delivered = FALSE]

(* wipetasks(): 5 s after anything was last served or staged.  Before      *)
(* 3.1.0 the mark of the duplicate guard goes with it.                     *)
Wiped(d) ==
  [Stage(d, Nothing) EXCEPT !.packets = <<>>, !.asking = FALSE,
                            !.mark = IF V2(d) THEN @ ELSE 0]

(* A reply: CTAP status, and the piece of the staged reply it carries.     *)
Bare(status) == [status |-> status, from |-> Nothing, at |-> 0, len |-> 0]
Stack == [status |-> "SUCCESS", from |-> [Nothing EXCEPT !.kind = "stack"], at |-> 0, len |-> 1]

(* send_stored_response(): the next piece of what is staged, which stays   *)
(* staged when it has been served; else whether a request is under way.    *)
Serve(d) ==
  IF d.staged # Nothing
    THEN LET len == IF d.staged.len - d.cursor > Full THEN Full ELSE d.staged.len - d.cursor
             whole == d.cursor + len = d.staged.len
         IN [dev |-> [d EXCEPT !.cursor = IF whole THEN 0 ELSE @ + len,
                               !.delivered = @ \/ whole],
             reply |-> [status |-> "SUCCESS", from |-> d.staged, at |-> d.cursor, len |-> len]]
    ELSE [dev |-> d,
          reply |-> Bare(IF d.asking \/ d.packets # <<>> THEN "PENDING" ELSE "NO_OPERATION")]

(* OKCONNECT: a new transit key, agreed with this caller, and its answer.  *)
(* During a challenge it is read as a sealed request, and refused.         *)
Connect(d, answer) ==
  Serve(IF d.asking THEN d
        ELSE Stage([d EXCEPT !.key = @ + 1], [answer EXCEPT !.key = d.key + 1]))

(* A request that does not open under the transit key is dispatched        *)
(* nowhere; it says so if it has nothing else to say.                      *)
Unopened(d) ==
  Serve(IF d.staged = Nothing /\ ~d.asking THEN Stage(d, Text("badTag")) ELSE d)

(* emulator patch 0016: what was delivered is wiped when a request begins. *)
Cleared(d) ==
  IF WipesDelivered(d) /\ d.delivered /\ ~d.asking /\ d.packets = <<>> THEN Wiped(d) ELSE d

(* One keyhandle of a request, numbered num and sealed under key.  v1 has  *)
(* no tag: what was boxed under another key is taken for noise.            *)
Chunk(d0, packet, key, num, final) ==
  IF V2(d0) /\ key # d0.key THEN {Unopened(d0)}
  ELSE LET d == Cleared(d0)
           read == IF key = d.key THEN packet ELSE <<"noise">>
       IN IF d.asking THEN {Serve(d)}
          ELSE IF d.mark # 0 /\ num <= d.mark THEN {[dev |-> d, reply |-> Stack]}
          ELSE {Serve([d EXCEPT !.packets = Append(@, read),
                                !.asking = final,
                                !.mark = IF ~final THEN num ELSE m]) :
                  m \in IF V2(d) \/ ~final THEN {0} ELSE Noise}

(* OKPING, sealed like a request: the next piece, or a complaint.          *)
Ping(d, key) ==
  IF V2(d) /\ key # d.key THEN Unopened(d)
  ELSE Serve(IF ~d.asking /\ d.staged = Nothing THEN Stage(d, Text("error")) ELSE d)

(* The user confirms: the result of the payload, of exactly what arrived.  *)
Pressed(d, len) ==
  [Stage(d, [kind |-> "result", of |-> d.packets, key |-> d.key, len |-> len])
     EXCEPT !.packets = <<>>, !.asking = FALSE]

(* The challenge runs out, or the wrong digits are entered.                *)
Lapsed(d) == [Stage(d, Text("error")) EXCEPT !.packets = <<>>, !.asking = FALSE]
=============================================================================
