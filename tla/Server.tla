------------------------------- MODULE Server -------------------------------
(***************************************************************************)
(* The life of the server: it loads its configuration, creates what it     *)
(* needs, serves on two ports until it gets a signal, lets its handlers    *)
(* and its cleanup end, closes its stores and exits; or it is killed at    *)
(* any moment and started again on the database it left.                   *)
(*                                                                         *)
(* The administrators' handlers and the event streams are those of the     *)
(* http server; the handlers of the protocol server only take time here.   *)
(***************************************************************************)
EXTENDS Configuration, AdminAccounts, Broadcaster

CONSTANTS
    Files, Envs, Flags,   \* the layers a start can find
    MaxBoots              \* bound: starts of the process

ASSUME BootAssumption == MaxBoots \in Nat

ASSUME LayerAssumption == \A file \in Files : file.log \in DecisionLog

VARIABLES
    pc,           \* where Start is
    boots,        \* starts so far
    given,        \* what this start was given, until it serves
    cfg,          \* what Load made of it, until it serves
    signalled,    \* whether the context of Start is done
    expired,      \* whether the ten seconds of the shutdown are over
    cleanup,      \* the goroutine that deletes expired flows and sessions
    busy,         \* whether the protocol server has a request in hand
    stamp         \* the goroutine that keeps the last use of an API key

startVars == <<pc, boots, given, cfg>>
serveVars == <<signalled, expired, cleanup, busy, stamp>>
vars == <<startVars, serveVars, adminVars, streamVars>>

Given == [file : Files, env : Envs, flags : Flags]

Draining == {"closeHTTP", "drainHTTP", "drainProtocol", "waitCleanup"}

Running == {"serving", "closed"} \cup Draining

TypeOK ==
    /\ pc \in {"down", "loaded", "bootstrapped"} \cup Running
    /\ boots \in 0..MaxBoots
    /\ given \in Given \cup {None}
    /\ cfg # None => pc \in {"loaded", "bootstrapped"}
    /\ signalled \in BOOLEAN /\ expired \in BOOLEAN /\ busy \in BOOLEAN
    /\ cleanup \in {"running", "done"} /\ stamp \in {"running", "done"}
    /\ AdminsTypeOK
    /\ StreamsTypeOK

Init ==
    /\ pc = "down" /\ boots = 0 /\ given = None /\ cfg = None
    /\ signalled = FALSE /\ expired = FALSE /\ cleanup = "done"
    /\ busy = FALSE /\ stamp = "done"
    /\ AdminsInit
    /\ NoStreams

-----------------------------------------------------------------------------
(* Start.                                                                  *)

(* The process ends: what was in memory is gone.                           *)
End ==
    /\ pc' = "down" /\ given' = None /\ cfg' = None
    /\ signalled' = FALSE /\ expired' = FALSE /\ cleanup' = "done"
    /\ busy' = FALSE /\ stamp' = "done"
    /\ AdminsEnd
    /\ StreamsEnd
    /\ UNCHANGED boots

(* main: a configuration that does not load ends the process at once.      *)
Load(g) ==
    /\ pc = "down" /\ boots < MaxBoots
    /\ boots' = boots + 1
    /\ IF Loads(g)
       THEN pc' = "loaded" /\ given' = g /\ cfg' = Merged(g)
       ELSE UNCHANGED <<pc, given, cfg>>
    /\ UNCHANGED <<serveVars, adminVars, streamVars>>

Configured == IF cfg.values["persistence_enabled"].is = "on" THEN "sqlite" ELSE "memory"

(* app.New opens the store of the configuration and sees to it that there  *)
(* is an administrator, or fails and main exits.                           *)
New ==
    /\ pc = "loaded"
    /\ IF bootstrapFails(Configured)
       THEN End
       ELSE /\ bootstrapAdmin(Configured)
            /\ pc' = "bootstrapped"
            /\ UNCHANGED <<boots, given, cfg, serveVars, streamVars>>

(* The rest of New, and Start up to its select.                            *)
Serve ==
    /\ pc = "bootstrapped"
    /\ LoadOrCreateSessionHashKey(cfg.values["session_hash_key"].is = "good")
    /\ pc' = "serving" /\ given' = None /\ cfg' = None
    /\ cleanup' = "running"
    /\ UNCHANGED <<boots, signalled, expired, busy, stamp, streamVars>>

-----------------------------------------------------------------------------
(* While it runs.  New requests come in until their server is told to      *)
(* shut down; those in hand go on until the process ends.                  *)

HTTPOpen == pc \in {"serving", "closeHTTP"}

ProtocolOpen == HTTPOpen \/ pc = "drainHTTP"

Administer ==
    \/ /\ HTTPOpen
       /\ \/ \E a \in AdminIds : CreateAdmin(a)
          \/ \E w \in Workers, a \in AdminIds :
                \E does \in {"activate", "deactivate", "edit", "delete"} : Read(w, does, a)
          \/ \E a \in AdminIds : Login(a)
          \/ \E c \in cookies : Visit(c)
    \/ \E c \in cookies : Logout(c)

HandleAdmin(w) == pc # "closed" /\ (Count(w) \/ Write(w))

(* A handler cut off from its store fails.                                 *)
StoreGone(w) ==
    /\ pc = "closed" /\ request[w] # None
    /\ request' = [request EXCEPT ![w] = None]
    /\ UNCHANGED <<admins, backend, counts, keyVars, cookies>>

HandleStream(s) == subscribe(s) \/ SeeClosed(s) \/ unsubscribe(s)

Stream ==
    \/ HTTPOpen /\ ((\E s \in Streams : Arrive(s)) \/ Send)
    \/ \E s \in Streams : ClientGone(s)

BeginProtocol ==
    /\ ProtocolOpen /\ ~busy /\ busy' = TRUE
    /\ UNCHANGED <<signalled, expired, cleanup, stamp>>

EndProtocol ==
    /\ busy /\ busy' = FALSE
    /\ UNCHANGED <<signalled, expired, cleanup, stamp>>

(* A request with a key of the store starts a goroutine that writes when   *)
(* the key was used, and goes on.  Nobody waits for it: its write may come *)
(* when the request is long answered, or the database closed, and then it  *)
(* fails.  In memory there is nothing to close.                            *)
BeginStamp ==
    /\ HTTPOpen /\ backend = "sqlite"
    /\ stamp = "done" /\ stamp' = "running"
    /\ UNCHANGED <<signalled, expired, cleanup, busy>>

UpdateLastUsed ==
    /\ stamp = "running" /\ stamp' = "done"
    /\ UNCHANGED <<signalled, expired, cleanup, busy>>

(* The cleanup returns once its select takes the end of the context; what  *)
(* it does at a tick changes nothing that is kept here.                    *)
CleanupDone ==
    /\ cleanup = "running" /\ signalled /\ cleanup' = "done"
    /\ UNCHANGED <<signalled, expired, busy, stamp>>

Signal ==
    /\ ~signalled /\ signalled' = TRUE
    /\ UNCHANGED <<expired, cleanup, busy, stamp>>

Runs(step) == pc \in Running /\ step /\ UNCHANGED startVars

-----------------------------------------------------------------------------
(* Shutting down, in the order of Start.                                   *)

Goes(from, to) ==
    /\ pc = from /\ pc' = to
    /\ UNCHANGED <<boots, given, cfg>>

ReleaseStreams ==
    /\ Goes("serving", "closeHTTP")
    /\ signalled
    /\ Shutdown
    /\ UNCHANGED <<serveVars, adminVars>>

CloseHTTP ==
    /\ Goes("closeHTTP", "drainHTTP")
    /\ UNCHANGED <<serveVars, adminVars, streamVars>>

(* One timer, which starts with the first server.                          *)
Expire ==
    /\ pc \in {"drainHTTP", "drainProtocol"} /\ ~expired /\ expired' = TRUE
    /\ UNCHANGED <<startVars, signalled, cleanup, busy, stamp, adminVars, streamVars>>

HTTPIdle == (\A w \in Workers : request[w] = None) /\ (\A s \in Streams : stream[s] = "none")

DrainHTTP ==
    /\ Goes("drainHTTP", "drainProtocol")
    /\ HTTPIdle \/ expired
    /\ UNCHANGED <<serveVars, adminVars, streamVars>>

DrainProtocol ==
    /\ Goes("drainProtocol", "waitCleanup")
    /\ ~busy \/ expired
    /\ UNCHANGED <<serveVars, adminVars, streamVars>>

(* Slip: the stores are closed while the cleanup may be at work.           *)
CloseStoresAtOnce ==
    /\ Goes("waitCleanup", "closed")
    /\ UNCHANGED <<serveVars, adminVars, streamVars>>

CloseStores ==
    /\ Goes("waitCleanup", "closed")
    /\ cleanup = "done"
    /\ UNCHANGED <<serveVars, adminVars, streamVars>>

Exit == pc = "closed" /\ End

(* A port that cannot be listened on ends Start without closing anything,  *)
(* as does being killed.                                                   *)
Crash == pc # "down" /\ End

Shut ==
    \/ ReleaseStreams \/ CloseHTTP \/ DrainHTTP \/ DrainProtocol \/ CloseStores \/ Exit

-----------------------------------------------------------------------------
Admins == Administer \/ \E w \in Workers : HandleAdmin(w) \/ StoreGone(w)

Events == Stream \/ \E s \in Streams : HandleStream(s)

Background ==
    BeginProtocol \/ EndProtocol \/ BeginStamp \/ UpdateLastUsed \/ CleanupDone \/ Signal

Next ==
    \/ \E g \in Given : Load(g)
    \/ New \/ Serve
    \/ Runs(Admins) /\ UNCHANGED <<serveVars, streamVars>>
    \/ Runs(Events) /\ UNCHANGED <<serveVars, adminVars>>
    \/ Runs(Background) /\ UNCHANGED <<adminVars, streamVars>>
    \/ Expire
    \/ Shut
    \/ Crash

(* Start goes on, and so do some of the handlers of the http server that   *)
(* are at work and, beside them, the request of the other server or the    *)
(* cleanup; nothing makes a client go away, a signal come or the timer run *)
(* out.  The select of the cleanup chooses at random between a tick and    *)
(* the end of the context, so the end it will take.  Each of these steps   *)
(* changes the variables its fairness is about.                            *)
Handle ==
    \/ /\ Runs(\E w \in Workers : HandleAdmin(w) \/ StoreGone(w))
       /\ UNCHANGED <<serveVars, streamVars>>
    \/ /\ Runs(\E s \in Streams : HandleStream(s))
       /\ UNCHANGED <<serveVars, adminVars>>

Finish == Runs(EndProtocol \/ CleanupDone) /\ UNCHANGED <<adminVars, streamVars>>

Fairness == WF_pc(Shut) /\ WF_<<request, stream>>(Handle) /\ WF_<<busy, cleanup>>(Finish)

Spec == Init /\ [][Next]_vars /\ Fairness

-----------------------------------------------------------------------------
(* configuration.md: runtime flags > environment variables > YAML file >   *)
(* defaults.  A start that is not refused passed validation as a whole,    *)
(* has for every setting the value of the strongest layer that gives one   *)
(* (or turns it on), and every user to seed.  Of the decision log no path  *)
(* to redact is lost, scrubbing and retention are those of the strongest   *)
(* layer with a say, and nothing is included that the file does not ask    *)
(* for.  Its switches and its destination are the exception: they come     *)
(* with the log of the file, which is taken as a whole or, as where it     *)
(* holds nothing but switches, not at all.                                 *)
ConfigHonoured ==
    cfg # None =>
        LET file == given.file.log
            env  == given.env
            Gives(layer, s) == s \in DOMAIN layer /\ (s \in OnlyOn => layer[s].is = "on")
        IN  /\ \A s \in Settings :
                  cfg.values[s] =
                      IF Gives(given.flags, s) THEN given.flags[s]
                      ELSE IF Gives(env.values, s) THEN env.values[s]
                      ELSE IF Gives(given.file.values, s) THEN given.file.values[s]
                      ELSE Defaults.values[s]
            /\ cfg.seeds = given.file.seeds \cup env.seeds
            /\ cfg.log.redact = file.redact \cup env.redact
            /\ cfg.log.scrub <=> IF env.scrub = {} THEN file.scrub ELSE env.scrub = {TRUE}
            /\ {cfg.log.retention} = IF env.retention = {} THEN {file.retention}
                                                         ELSE env.retention
            /\ cfg.log.include => file.include
            /\ file = EmptyLog => cfg.log.enabled
            /\ validate(cfg)

(* The last active administrator can be neither deactivated nor deleted:   *)
(* where requests for administrators do not overlap and no count of them   *)
(* has failed, somebody can sign in to a server that runs, after any       *)
(* restarts, on either backend.                                            *)
SomebodyCanLogIn ==
    pc \in Running /\ counts = "sound" => \E a \in AdminIds : Active(a)

(* installation.md: the key is stored in SQLite and reused, so sessions    *)
(* survive restarts.  The cookie of a process that kept its key lets an    *)
(* active administrator in to every later one on that database, unless the *)
(* environment has brought another key.                                    *)
SignedInStaysIn ==
    \A c \in cookies :
        c.kept /\ pc \in Running /\ backend = "sqlite" /\ hashKey # ConfiguredKey
            => (Admits(c) <=> Active(c.admin))

(* When the stores are closed the cleanup, which works on them, is over    *)
(* and, unless the ten seconds were, so is every handler of either server. *)
(* It does not hold of stamp: that goroutine may find its store closed.    *)
StoreOutlives ==
    pc = "closed" => cleanup = "done" /\ (expired \/ (HTTPIdle /\ ~busy))

(* sse.go: Shutdown closes the channels so that the http server drains     *)
(* without waiting the full timeout.  After a signal the process ends      *)
(* without the timer, unless a stream subscribed too late to be released.  *)
ShutdownEnds == signalled ~> (pc = "down" \/ (pc \in Draining /\ subs # {}))
=============================================================================
