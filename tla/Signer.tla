------------------------------- MODULE Signer -------------------------------
(***************************************************************************)
(* The signer task (signer.rs) keeps the seed and answers, one at a time,  *)
(* the requests in its channel: the State Handler asks for the account of  *)
(* a new order, payout tasks for signatures, and at the end the handler    *)
(* asks it to stop.  A pair of keys is named by the junctions of its       *)
(* derivation from the seed, which does not change.                        *)
(***************************************************************************)
EXTENDS Naturals, Sequences

CONSTANTS
    Orders,       \* order ids
    Recipients,   \* accounts the daemon may be configured to pay to
    Handler,      \* the State Handler, which asks beside the payout tasks
    SignerCap     \* capacity of the channel: 16

ASSUME HandlerIsNoOrder == Handler \notin Orders
ASSUME SignerCapIsPositive == SignerCap \in Nat \ {0}

VARIABLES
    recipient,   \* the recipient configured at this start
    signer,      \* "starting", "up" or "down"
    signerQ,     \* requests in its channel
    answer       \* what each client's oneshot holds, if it waits for one

signerVars == <<recipient, signer, signerQ, answer>>

Clients == Orders \cup {Handler}

(* Mutant: the recipient is left out of the derivation.                    *)
derivations_orderOnly(to, order) == <<"recipient", order>>

(* Hard junctions: no two paths lead to one pair.                          *)
derivations(to, order) == <<to, order>>

Pairs == {derivations(to, o) : to \in Recipients, o \in Orders}

(* What a client has: nothing asked, a request under way, a pair's public  *)
(* key, a signature, or an error.                                          *)
Nothing == [type |-> "nothing"]
Awaited == [type |-> "awaited"]
SignerDown == [type |-> "down"]
PublicKey(pair) == [type |-> "public", by |-> pair]
Signature(pair, signable) ==
    [type |-> "signature", by |-> pair, over |-> signable]

PublicKeyRequest(id, from) ==
    [type |-> "public", id |-> id, from |-> from]
Sign(id, signable, from) ==
    [type |-> "sign", id |-> id, signable |-> signable, from |-> from]
ShutdownRequest == [type |-> "shutdown"]

SignerInit ==
    /\ recipient \in Recipients
    /\ signer = "starting" /\ signerQ = <<>>
    /\ answer = [c \in Clients |-> Nothing]

-----------------------------------------------------------------------------
(* Signer::public and Signer::sign: send, waiting for room in the channel, *)
(* and wait for the answer.  Without a receiver the send fails.            *)
Ask(c, request) ==
    /\ UNCHANGED <<recipient, signer>>
    /\ \/ /\ signer # "down" /\ Len(signerQ) < SignerCap
          /\ signerQ' = Append(signerQ, request)
          /\ answer' = [answer EXCEPT ![c] = Awaited]
       \/ /\ signer = "down"
          /\ answer' = [answer EXCEPT ![c] = SignerDown]
          /\ UNCHANGED signerQ

(* Signer::shutdown does not wait for the answer, nor mind an error.       *)
AskToStop ==
    /\ UNCHANGED <<recipient, signer, answer>>
    /\ \/ /\ signer # "down" /\ Len(signerQ) < SignerCap
          /\ signerQ' = Append(signerQ, ShutdownRequest)
       \/ signer = "down" /\ UNCHANGED signerQ

(* Mutant: who waits for an answer is not told.                            *)
SignerEnds_silent ==
    signer' = "down" /\ signerQ' = <<>> /\ UNCHANGED <<answer, recipient>>

(* The receiver goes, and the requests left in the channel with it.        *)
SignerEnds ==
    /\ signer' = "down" /\ signerQ' = <<>>
    /\ answer' = [c \in Clients |-> IF answer[c] = Awaited THEN SignerDown
                                                           ELSE answer[c]]
    /\ UNCHANGED recipient

(* entropy_from_phrase: a bad phrase ends the task.                        *)
ReadSeed ==
    /\ signer = "starting"
    /\ \/ /\ signer' = "up"
          /\ UNCHANGED <<recipient, signerQ, answer>>
       \/ SignerEnds

Serves(type) ==
    signer = "up" /\ signerQ # <<>> /\ Head(signerQ).type = type

Answers(c, reply) ==
    /\ answer' = [answer EXCEPT ![c] = reply]
    /\ signerQ' = Tail(signerQ)
    /\ UNCHANGED <<recipient, signer>>

ServePublicKey ==
    /\ Serves("public")
    /\ LET request == Head(signerQ)
       IN  Answers(request.from, PublicKey(derivations(recipient, request.id)))

ServeSign ==
    /\ Serves("sign")
    /\ LET request == Head(signerQ)
       IN  Answers(request.from, Signature(derivations(recipient, request.id),
                                           request.signable))

(* The entropy of the seed is erased; the phrase it was read from is not.  *)
ServeShutdown == Serves("shutdown") /\ SignerEnds

SignerStep == ReadSeed \/ ServePublicKey \/ ServeSign \/ ServeShutdown

SignerTypeOK ==
    /\ recipient \in Recipients
    /\ signer \in {"starting", "up", "down"}
    /\ \A k \in DOMAIN signerQ :
          \/ signerQ[k] = ShutdownRequest
          \/ signerQ[k].id \in Orders /\ signerQ[k].from \in Clients
    /\ Len(signerQ) <= SignerCap
    /\ DOMAIN answer = Clients
=============================================================================
