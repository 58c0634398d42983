----------------------------- MODULE QqGateway -----------------------------
(***************************************************************************)
(* The QQ connector: im/qq/qq.go.  Replies go out over HTTP under an app   *)
(* access token that ensureToken renews; messages come in over a gateway   *)
(* socket that one goroutine keeps.  The platform is external: it issues   *)
(* tokens, refuses expired ones and sends what frames it likes.            *)
(*                                                                         *)
(* A token's age is all its expiry comes to: more than a minute left, less *)
(* than a minute left, expired.  The HTTP client's 15 s timeout is shorter *)
(* than that minute, so a token ages at most once while a request that     *)
(* follows the check is on its way.                                        *)
(***************************************************************************)
EXTENDS Naturals

CONSTANTS Senders,    \* sessions' loops that hand a reply to the connector
          Starter,    \* the gateway's handler that starts the connector
          None,
          MaxDials,   \* bound: connections dialled
          MaxBeats    \* bound: heartbeats that fall due after Stop

Ages == {"fresh", "near", "expired"}

ConstantsAssumption ==
    /\ Starter \notin Senders /\ None \notin Ages
    /\ MaxDials \in Nat /\ MaxBeats \in Nat

VARIABLES
    started, told,  \* Connector.started; the stop channel is closed
    token,          \* Connector.token with its expiry
    at,             \* where each caller of ensureToken is
    loop, dials,    \* gatewayLoop and runGatewayOnce: the place; connections so far
    late, beats,    \* history: frames read, heartbeats sent after Stop
    aged            \* senders whose token aged since they checked it

vars == <<started, told, token, at, loop, dials, late, beats, aged>>

Callers == Senders \cup {Starter}
Older == [a \in Ages |-> IF a = "fresh" THEN "near" ELSE "expired"]

Init ==
    /\ started = FALSE /\ told = FALSE /\ token = None
    /\ at = [c \in Callers |-> "idle"]
    /\ loop = "none" /\ dials = 0 /\ late = 0 /\ beats = 0 /\ aged = {}

-----------------------------------------------------------------------------
(* Start, Stop and the token.                                              *)

Enter(c, next) == at' = [at EXCEPT ![c] = next]

\* started is set before the token is asked for.
Start ==
    /\ ~started /\ ~told
    /\ started' = TRUE /\ Enter(Starter, "check")
    /\ UNCHANGED <<told, token, loop, dials, late, beats, aged>>

\* One lock; a connector is not started again (its stop channel stays closed).
Stop ==
    /\ started /\ at[Starter] = "idle"
    /\ started' = FALSE /\ told' = TRUE
    /\ UNCHANGED <<token, at, loop, dials, late, beats, aged>>

Send(s) ==
    /\ started /\ at[s] = "idle"
    /\ Enter(s, "check")
    /\ UNCHANGED <<started, told, token, loop, dials, late, beats, aged>>

\* Fault: a token serves until it expires.
GoodEnoughToTheEnd == token \in {"fresh", "near"}

\* The cached token is used while more than a minute is left of it.
GoodEnough == token = "fresh"

\* ensureToken looks under the lock, and asks for a new token without it.
Check(c) ==
    /\ at[c] = "check"
    /\ Enter(c, IF GoodEnough THEN "have" ELSE "fetch")
    /\ aged' = aged \ {c}
    /\ UNCHANGED <<started, told, token, loop, dials, late, beats>>

\* Two callers may both fetch: the later answer is stored over the earlier one.
Fetched(c) ==
    /\ at[c] = "fetch"
    /\ token' = "fresh" /\ Enter(c, "have")
    /\ aged' = aged \ {c}
    /\ UNCHANGED <<started, told, loop, dials, late, beats>>

\* Start returns the error, and the connector stays started without a loop.
FetchFails(c) ==
    /\ at[c] = "fetch"
    /\ Enter(c, "idle")
    /\ UNCHANGED <<started, told, token, loop, dials, late, beats, aged>>

Launch ==
    /\ at[Starter] = "have"
    /\ loop' = "top" /\ Enter(Starter, "idle")
    /\ UNCHANGED <<started, told, token, dials, late, beats, aged>>

\* The request carries whatever token the connector holds by now.
Post(s) ==
    /\ at[s] = "have"
    /\ Enter(s, "posting")
    /\ UNCHANGED <<started, told, token, loop, dials, late, beats, aged>>

\* A peer kind the connector does not know is refused without a request.
Unsupported(s) ==
    /\ at[s] = "have"
    /\ Enter(s, "idle")
    /\ UNCHANGED <<started, told, token, loop, dials, late, beats, aged>>

Posted(s) ==
    /\ at[s] = "posting"
    /\ Enter(s, "idle")
    /\ UNCHANGED <<started, told, token, loop, dials, late, beats, aged>>

-----------------------------------------------------------------------------
(* The gateway's goroutine.                                                *)

\* The selects of gatewayLoop, before a connection and after the backoff.
Look ==
    /\ loop \in {"top", "backoff"}
    /\ loop' = IF told THEN "ended" ELSE IF loop = "top" THEN "address" ELSE "top"
    /\ UNCHANGED <<started, told, token, at, dials, late, beats, aged>>

\* The gateway's address is asked for with the token as it is: nothing renews it
\* here, and the platform refuses an expired one.
Address ==
    /\ loop = "address"
    /\ \/ token # "expired" /\ dials < MaxDials /\ dials' = dials + 1 /\ loop' = "hello"
       \/ dials' = dials /\ loop' = "backoff"
    /\ UNCHANGED <<started, told, token, at, late, beats, aged>>

\* Dial, hello and identify; each may fail, and the first frame must be a hello.
Hello ==
    /\ loop = "hello"
    /\ loop' \in {"poll", "backoff"}
    /\ UNCHANGED <<started, told, token, at, dials, late, beats, aged>>

\* Before each frame: stop, a heartbeat that is due (whose write may fail), or
\* on.  When both are ready the select takes either.
Poll ==
    /\ loop = "poll"
    /\ \/ told /\ loop' = "backoff" /\ beats' = beats
       \/ ~told /\ loop' \in {"read", "backoff"} /\ beats' = beats
       \/ told /\ beats < MaxBeats /\ beats' = beats + 1 /\ loop' = "read"
    /\ UNCHANGED <<started, told, token, at, dials, late, aged>>

Payloads == [event : {"C2C_MESSAGE_CREATE", "GROUP_AT_MESSAGE_CREATE", "other"}, text : BOOLEAN]

\* dispatchEvent: a text message to the bot, by the type inside the payload.
IsMessage(p) == p.event # "other" /\ p.text

\* A read has no deadline: it ends with a frame or with the connection.
Read ==
    /\ loop = "read"
    /\ late' = IF told THEN late + 1 ELSE late
    /\ \/ loop' = "poll"                     \* a heartbeat's answer, anything else
       \/ loop' = "backoff"                  \* a request to reconnect, an error
       \/ \E p \in Payloads : IsMessage(p) /\ loop' = "deliver"
    /\ UNCHANGED <<started, told, token, at, dials, beats, aged>>

\* The manager's handler runs in this goroutine.
Deliver ==
    /\ loop = "deliver"
    /\ loop' = "poll"
    /\ UNCHANGED <<started, told, token, at, dials, late, beats, aged>>

InFlight == {s \in Senders : at[s] \in {"have", "posting"}}

\* Time passes: at most one step between a check and the end of its request.
Age ==
    /\ token # None /\ token # "expired" /\ InFlight \cap aged = {}
    /\ token' = Older[token] /\ aged' = InFlight
    /\ UNCHANGED <<started, told, at, loop, dials, late, beats>>

LoopStep == Look \/ Address \/ Hello \/ Poll \/ Read \/ Deliver
TokenStep(c) == Check(c) \/ Fetched(c) \/ FetchFails(c)

Next ==
    \/ Start \/ Stop \/ Launch \/ LoopStep \/ Age
    \/ \E c \in Callers : TokenStep(c)
    \/ \E s \in Senders : Send(s) \/ Post(s) \/ Unsupported(s) \/ Posted(s)

Spec == Init /\ [][Next]_vars
-----------------------------------------------------------------------------
(* Properties.                                                             *)

\* Shapes; the loop runs only with a token, which it never loses.
TypeOK ==
    /\ token \in Ages \cup {None} /\ at \in [Callers -> {"idle", "check", "fetch", "have", "posting"}]
    /\ loop \in {"none", "top", "address", "hello", "poll", "read", "deliver", "backoff", "ended"}
    /\ loop # "none" => token # None
    /\ dials \in 0 .. MaxDials /\ aged \subseteq Senders
    /\ started => ~told

\* The token a reply is posted under does not expire before the platform has
\* answered, however the checks, renewals and posts of several sessions fall
\* (qq.go ensureToken, Send).
TokenOutlivesRequest == \A s \in Senders : at[s] = "posting" => token # "expired"

\* After Stop the goroutine reads the frame it is waiting for, and one for each
\* heartbeat that was due when it looked: nothing else keeps a stopped connector
\* handing on messages (qq.go runGatewayOnce).
FewFramesAfterStop == late <= 1 + beats
=============================================================================
