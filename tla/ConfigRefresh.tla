---------------------------- MODULE ConfigRefresh ----------------------------
(***************************************************************************)
(* Configuration at run time: the environment an application boots with    *)
(* (system properties, environment variables, local file, Nacos data ids), *)
(* the watchers that push changed Nacos contents into refreshChan, the     *)
(* WatcherManager goroutine that applies them and rebinds the structs      *)
(* bound to changed keys, and its close.                                   *)
(*                                                                         *)
(* Boot is a value of Init: an application whose boot fails never refreshes*)
(* anything.  A refresh has three steps, because readers look properties   *)
(* up between them.                                                        *)
(***************************************************************************)
EXTENDS PropertySources, FiniteSets

CONSTANTS
    DataIDs,     \* NacosConfigProperties.DataIDs, in the order of the configuration
    Keys,        \* property keys
    None,        \* no value, no message
    Unparsable,  \* a content the reader of its type rejects
    Fixed,       \* what the system and local sources may hold
    Contents,    \* what a Nacos content may hold
    HasDef,      \* the keys bound with a default value
    ChanCap,     \* capacity of refreshChan (50 in the code)
    MaxChanges   \* bound: changes made on the Nacos server

Ids == {DataIDs[i] : i \in DOMAIN DataIDs}

\* What a source may hold: values for some of the keys.
Values == [v : Nat, form : {"plain", "cipher", "broken"}]
IsMap(kv) == DOMAIN kv \subseteq Keys /\ kv \in [DOMAIN kv -> Values]

\* The name of a Nacos source begins with [NACOS] (getSourceKey).
ASSUME ConfigAssumption ==
    /\ DataIDs \in Seq(Ids) /\ Ids \cap {"properties", "environment"} = {}
    /\ HasDef \subseteq Keys
    /\ \A kv \in Fixed \cup Contents : IsMap(kv)
    /\ \A kv \in Fixed : Decryptable(kv)
    /\ ChanCap \in Nat \ {0} /\ MaxChanges \in Nat

VARIABLES
    sources,     \* the environment's MutablePropertySources
    server,      \* the content of each data id on the Nacos server
    seen,        \* the content the Nacos client last reported
    watcher,     \* each data id's NacosConfigWatcher
    push,        \* the source its OnChange is about to send
    refreshChan, \* WatcherManager.refreshChan
    runner,      \* WatcherManager.run: where it is, the refresh, the changed keys
    ctxDone,     \* close has cancelled WatcherManager.ctx
    bound,       \* the struct fields bound to the keys
    changes      \* how many of MaxChanges have happened

vars == <<sources, server, seen, watcher, push, refreshChan, runner, ctxDone, bound, changes>>

Default == [v |-> 0, form |-> "plain"]

Select == [at |-> "select", ps |-> None, changed |-> {}]

-------------------------------------------------------------------------------
(* Boot *)

\* NewStandardEnvironment: environment variables, and -D properties before them.
SystemSources(env, props) ==
    LET eps == Source(Plain("environment"), env)
        pps == Source(Plain("properties"), props)
    IN  WithDecrypt(WithDecrypt(AddBefore(AddFirst(<<>>, eps), eps.name, pps), eps), pps)

\* LoadLocalConfig: the file is the last source; then it is decrypted.
WithLocal(l, kv) ==
    LET ps == Source(Plain("local"), kv) IN WithDecrypt(AddLast(l, ps), ps)

\* EnableNacosRemoteConfig, from the last data id to the first: each one whose
\* content is not empty goes right after the environment variables, or takes
\* the place it has already if it is listed twice.
WithNacos(l, contents) ==
    LET with[i \in 0..Len(DataIDs)] ==
            IF i = 0 THEN l
            ELSE LET id == DataIDs[Len(DataIDs) + 1 - i]
                     ps == Source(Plain(id), contents[id])
                     had == with[i - 1]
                 IN  IF contents[id] = None THEN had
                     ELSE WithDecrypt(IF Contains(had, ps.name) THEN Replace(had, ps)
                                      ELSE AddAfter(had, Plain("environment"), ps), ps)
    IN  with[Len(DataIDs)]

\* doBindValue: a key without a value takes its default, or is left alone.
Bind(l, key, old) ==
    IF Lookup(l, key, None) # None THEN Lookup(l, key, None)
    ELSE IF key \in HasDef THEN Default ELSE old

Init ==
    /\ server \in [Ids -> {kv \in Contents : Decryptable(kv)} \cup {None}]
    /\ \E env, props, local \in Fixed :
          sources = WithNacos(WithLocal(SystemSources(env, props), local), server)
    /\ seen = server
    /\ watcher = [id \in Ids |-> IF server[id] = None THEN "none" ELSE "queued"]
    /\ push = [id \in Ids |-> None]
    /\ refreshChan = <<>>
    /\ runner = Select
    /\ ctxDone = FALSE
    /\ bound = [k \in Keys |-> Bind(sources, k, None)]
    /\ changes = 0

-------------------------------------------------------------------------------
(* The Nacos server and client, and the watchers' callbacks *)

ServerChanges(id) ==
    /\ changes < MaxChanges
    /\ changes' = changes + 1
    /\ \E c \in (Contents \cup {Unparsable}) \ {server[id]} :
          server' = [server EXCEPT ![id] = c]
    /\ UNCHANGED <<sources, seen, watcher, push, refreshChan, runner, ctxDone, bound>>

\* OnChange builds a source from the content, unless it does not parse.
OnChange(id) ==
    /\ watcher[id] = "listening"
    /\ push[id] = None
    /\ seen[id] # server[id]
    /\ seen' = [seen EXCEPT ![id] = server[id]]
    /\ push' = IF server[id] = Unparsable THEN push
               ELSE [push EXCEPT ![id] = Source(Plain(id), server[id])]
    /\ UNCHANGED <<sources, server, watcher, refreshChan, runner, ctxDone, bound, changes>>

\* changePropertySources: waits for room in refreshChan.
ChangePropertySources(id) ==
    /\ push[id] # None
    /\ Len(refreshChan) < ChanCap
    /\ refreshChan' = Append(refreshChan, push[id])
    /\ push' = [push EXCEPT ![id] = None]
    /\ UNCHANGED <<sources, server, seen, watcher, runner, ctxDone, bound, changes>>

\* The goroutine startWatcher spawned calls Start, which registers OnChange.
WatcherStart(id) ==
    /\ watcher[id] = "starting"
    /\ watcher' = [watcher EXCEPT ![id] = "listening"]
    /\ UNCHANGED <<sources, server, seen, push, refreshChan, runner, ctxDone, bound, changes>>

-------------------------------------------------------------------------------
(* WatcherManager *)

\* run takes a watcher from watcherChan; a closed manager does not start it.
StartWatcher(id) ==
    /\ runner.at = "select"
    /\ watcher[id] = "queued"
    /\ watcher' = [watcher EXCEPT ![id] = IF ctxDone THEN "none" ELSE "starting"]
    /\ UNCHANGED <<sources, server, seen, push, refreshChan, runner, ctxDone, bound, changes>>

\* changes(): the keys that are new, gone, or have another text.
Changes(before, after) ==
    {k \in DOMAIN before \cup DOMAIN after :
        \/ k \notin DOMAIN before
        \/ k \notin DOMAIN after
        \/ before[k] # after[k]}

\* Mutant of Accepts: a decryption that fails does not stop the refresh.
AcceptsBroken(ps) == Contains(sources, ps.name)

Accepts(ps) == Contains(sources, ps.name) /\ Decryptable(ps.kv)

\* Mutant of RefreshIgnores: the manager gives up instead.
RefreshGivesUp ==
    /\ runner.at = "select"
    /\ refreshChan # <<>>
    /\ ~Accepts(Head(refreshChan))
    /\ refreshChan' = Tail(refreshChan)
    /\ runner' = [Select EXCEPT !.at = "exited"]
    /\ UNCHANGED <<sources, server, seen, watcher, push, ctxDone, bound, changes>>

\* A source that is not in the list or cannot be decrypted is ignored.
RefreshIgnores ==
    /\ runner.at = "select"
    /\ refreshChan # <<>>
    /\ ~Accepts(Head(refreshChan))
    /\ refreshChan' = Tail(refreshChan)
    /\ UNCHANGED <<sources, server, seen, watcher, push, runner, ctxDone, bound, changes>>

\* ReplaceSource puts the new source in the place of the old one.
RefreshReplaces ==
    /\ runner.at = "select"
    /\ refreshChan # <<>>
    /\ LET ps == Head(refreshChan)
       IN  /\ Accepts(ps)
           /\ sources' = Replace(sources, ps)
           /\ runner' = [at |-> "replaced", ps |-> ps,
                         changed |-> Changes(Get(sources, ps.name).kv, ps.kv)]
    /\ refreshChan' = Tail(refreshChan)
    /\ UNCHANGED <<server, seen, watcher, push, ctxDone, bound, changes>>

\* Its decrypt source follows; listeners are called if a key has changed.
RefreshDecrypts ==
    /\ runner.at = "replaced"
    /\ sources' = WithDecrypt(sources, runner.ps)
    /\ runner' = IF runner.changed = {} THEN Select ELSE [runner EXCEPT !.at = "notify"]
    /\ UNCHANGED <<server, seen, watcher, push, refreshChan, ctxDone, bound, changes>>

\* Mutant of Rebind: a key that has gone does not concern its listeners.
RebindPresent ==
    [k \in Keys |-> IF k \in runner.changed \cap DOMAIN runner.ps.kv
                    THEN Bind(sources, k, bound[k]) ELSE bound[k]]

\* The listeners of the changed keys bind their fields again.
Rebind ==
    [k \in Keys |-> IF k \in runner.changed THEN Bind(sources, k, bound[k]) ELSE bound[k]]

RefreshNotifies ==
    /\ runner.at = "notify"
    /\ bound' = Rebind
    /\ runner' = Select
    /\ UNCHANGED <<sources, server, seen, watcher, push, refreshChan, ctxDone, changes>>

\* close: it waits for a refresh to end (watchersLock), stops the watchers that
\* were started and cancels ctx.  Stop undoes a registration that has happened.
Close ==
    /\ ~ctxDone
    /\ runner.at \in {"select", "exited"}
    /\ watcher' = [id \in Ids |->
                     IF watcher[id] = "listening" THEN "stopped" ELSE watcher[id]]
    /\ ctxDone' = TRUE
    /\ UNCHANGED <<sources, server, seen, push, refreshChan, runner, bound, changes>>

RunExits ==
    /\ runner.at = "select"
    /\ ctxDone
    /\ runner' = [Select EXCEPT !.at = "exited"]
    /\ UNCHANGED <<sources, server, seen, watcher, push, refreshChan, ctxDone, bound, changes>>

-------------------------------------------------------------------------------
RunStep ==
    \/ RefreshIgnores \/ RefreshReplaces \/ RefreshDecrypts \/ RefreshNotifies \/ RunExits
    \/ \E id \in Ids : StartWatcher(id)
WatcherStep(id) == OnChange(id) \/ ChangePropertySources(id) \/ WatcherStart(id)

Next ==
    \/ RunStep \/ Close
    \/ \E id \in Ids : ServerChanges(id) \/ WatcherStep(id)

Spec == Init /\ [][Next]_vars

\* run and the callbacks go on when they can, and run's select does not starve
\* the refreshes; nobody has to change a content or to close the manager.
FairSpec ==
    /\ Spec
    /\ WF_vars(RunStep)
    /\ \A id \in Ids : WF_vars(WatcherStep(id)) /\ WF_vars(StartWatcher(id))

-------------------------------------------------------------------------------
(* Properties *)

Origins == Ids \cup {"properties", "environment", "local"}
Names == [of : Origins, dec : BOOLEAN]
IsSource(ps) == ps = Source(ps.name, ps.kv) /\ ps.name \in Names /\ IsMap(ps.kv)

\* Types: the list and the channel hold sources, the list only those that can
\* be decrypted, and the channel never exceeds its capacity.
TypeOK ==
    /\ \A i \in DOMAIN sources : IsSource(sources[i]) /\ Decryptable(sources[i].kv)
    /\ \A i \in DOMAIN refreshChan : IsSource(refreshChan[i])
    /\ Len(refreshChan) <= ChanCap
    /\ server \in [Ids -> Contents \cup {None, Unparsable}]
    /\ seen \in [Ids -> Contents \cup {None, Unparsable}]
    /\ watcher \in [Ids -> {"none", "queued", "starting", "listening", "stopped"}]
    /\ runner.at \in {"select", "replaced", "notify", "exited"}
    /\ ctxDone \in BOOLEAN
    /\ changes \in 0..MaxChanges

\* No name is in the list twice, whatever is added, moved, replaced or removed
\* (removeIfPresent in every addition).
NamesUnique == \A i, j \in DOMAIN sources : sources[i].name = sources[j].name => i = j

Precedes(l, m, n) ==
    \E i, j \in DOMAIN l : i <= j /\ l[i].name = m /\ l[j].name = n

\* A refresh never changes which source has precedence over which: the sources
\* other than decrypt sources stay in the order of boot (ReplaceSource).
PrecedenceKept ==
    [][sources' # sources =>
         \A a, b \in Origins :
            Precedes(sources', Plain(a), Plain(b)) <=> Precedes(sources, Plain(a), Plain(b))]_vars

\* Between refreshes the decrypt sources say what the current contents say:
\* each source with enciphered values has one, next to it and built from its
\* present content, and no other source has one (doRefreshPropertySource,
\* CreateOrUpdateDecryptForPropertySource).
DecryptsCurrent ==
    runner.at \in {"select", "notify"} =>
        \A i \in DOMAIN sources :
            ~sources[i].name.dec =>
                LET d == IndexOfName(sources, DecryptName(sources[i].name))
                IN  IF Enciphered(sources[i].kv) = {} THEN d = 0
                    ELSE d \in {i - 1, i + 1} /\ sources[d] = DecryptSource(sources[i])

\* Between refreshes the bound field of a key that no source enciphers has the
\* value a lookup of the key gives, or its default when there is none (changes,
\* the listeners of BindValue).
BoundFresh ==
    runner.at = "select" =>
        \A k \in Keys :
            LET found == Lookup(sources, k, None)
            IN  \/ \E i \in DOMAIN sources : k \in Enciphered(sources[i].kv)
                \/ found # None /\ bound[k] = found
                \/ found = None /\ (k \in HasDef => bound[k] = Default)

\* Between refreshes list, decrypt sources and bound fields belong together
\* (doRefreshPropertySource, changes).
Consistent == TypeOK /\ NamesUnique /\ DecryptsCurrent /\ BoundFresh

\* What the server holds reaches the environment once it no longer changes, if it
\* can be parsed and decrypted and the manager is not closed, whatever was
\* ignored before it (doRefreshPropertySource goes on after an error).
RefreshArrives ==
    \A id \in Ids :
        watcher[id] = "listening"
            ~> \/ ctxDone
               \/ server[id] \notin {kv \in Contents : Decryptable(kv)}
               \/ \E i \in DOMAIN sources : sources[i] = Source(Plain(id), server[id])

\* The decrypt source is added before its source ("添加到目标LocalSource之前"),
\* so that between refreshes no lookup answers with a ciphertext.
ServesPlaintext ==
    runner.at = "select" =>
        \A k \in Keys :
            Lookup(sources, k, None) # None => Lookup(sources, k, None).form = "plain"
===============================================================================
