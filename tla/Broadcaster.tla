----------------------------- MODULE Broadcaster -----------------------------
(***************************************************************************)
(* Server-sent events: each stream has a handler that subscribes a channel *)
(* and copies what it receives until the channel is closed or the client   *)
(* is gone.  Every operation of the broadcaster holds its mutex.  What is  *)
(* in a channel's buffer is not kept: Send drops an event that does not    *)
(* fit, and a handler copies what is left before it sees the end.          *)
(***************************************************************************)
CONSTANT Streams    \* connections that ask for events

VARIABLES
    subs,      \* the streams whose channel the broadcaster knows
    chan,      \* the channel of each stream; "panic" once closed twice
    stream     \* where the handler of each stream is

streamVars == <<subs, chan, stream>>

StreamsTypeOK ==
    /\ subs \subseteq Streams
    /\ chan \in [Streams -> {"none", "open", "closed", "panic"}]
    /\ stream \in [Streams -> {"none", "arrived", "listening", "leaving"}]

NoStreams ==
    /\ subs = {}
    /\ chan = [s \in Streams |-> "none"]
    /\ stream = [s \in Streams |-> "none"]

StreamsEnd ==
    /\ subs' = {}
    /\ chan' = [s \in Streams |-> "none"]
    /\ stream' = [s \in Streams |-> "none"]

(* Closing a closed channel, like sending on one, stops the process.       *)
closed(c) == IF c = "open" THEN "closed" ELSE "panic"

(* The handler is the last to hold its channel.                            *)
left(c) == IF c = "panic" THEN c ELSE "none"

At(s, place) == stream' = [stream EXCEPT ![s] = place]

-----------------------------------------------------------------------------
(* The handler sends its headers before it subscribes.                     *)
Arrive(s) ==
    /\ stream[s] = "none"
    /\ At(s, "arrived")
    /\ UNCHANGED <<subs, chan>>

subscribe(s) ==
    /\ stream[s] = "arrived"
    /\ chan' = [chan EXCEPT ![s] = "open"]
    /\ subs' = subs \cup {s}
    /\ At(s, "listening")

SeeClosed(s) ==
    /\ stream[s] = "listening"
    /\ chan[s] = "closed"
    /\ At(s, "leaving")
    /\ UNCHANGED <<subs, chan>>

ClientGone(s) ==
    /\ stream[s] = "listening"
    /\ At(s, "leaving")
    /\ UNCHANGED <<subs, chan>>

(* Slip: the channel is closed without looking whether it still is there.  *)
unsubscribeAnyway(s) ==
    /\ stream[s] = "leaving"
    /\ chan' = [chan EXCEPT ![s] = left(closed(@))]
    /\ subs' = subs \ {s}
    /\ At(s, "none")

(* Deferred by the handler, which ends.  A channel that is not there has   *)
(* been closed by Shutdown.                                                *)
unsubscribe(s) ==
    /\ stream[s] = "leaving"
    /\ chan' = [chan EXCEPT ![s] = left(IF s \in subs THEN closed(@) ELSE @)]
    /\ subs' = subs \ {s}
    /\ At(s, "none")

-----------------------------------------------------------------------------
(* An event for every subscriber.                                          *)
Send ==
    /\ chan' = [s \in Streams |->
                  IF s \in subs /\ chan[s] # "open" THEN "panic" ELSE chan[s]]
    /\ UNCHANGED <<subs, stream>>

(* Slip: the subscribers are forgotten, and their channels left open.      *)
ShutdownForgetful ==
    /\ subs' = {}
    /\ UNCHANGED <<chan, stream>>

Shutdown ==
    /\ chan' = [s \in Streams |-> IF s \in subs THEN closed(chan[s]) ELSE chan[s]]
    /\ subs' = {}
    /\ UNCHANGED stream

-----------------------------------------------------------------------------
(* sse.go: a channel the broadcaster does not know has been closed by      *)
(* Shutdown already.  Whoever closes it, a channel is closed once, and     *)
(* nothing is sent on a closed one.                                        *)
NoPanic ==
    \A s \in Streams : chan[s] # "panic" /\ (s \in subs => chan[s] = "open")
=============================================================================
