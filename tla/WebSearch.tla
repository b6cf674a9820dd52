------------------------------- MODULE WebSearch -------------------------------
(***************************************************************************)
(* web_search.search (agent/web_search.go) with its settings               *)
(* (webui/web_search_config.go): the providers are asked in their order    *)
(* until one has content.  A provider is either a remote MCP server, with  *)
(* which a session is opened, announced, used and closed, or one request.  *)
(* Each has a time of its own within the time of the search; the console   *)
(* may save other settings meanwhile, or test one provider by itself.      *)
(*                                                                         *)
(* Left out: the bodies of requests, event streams, and the length of      *)
(* what is found.                                                          *)
(***************************************************************************)
EXTENDS Integers, Sequences, SequencesExt, FiniteSets

CONSTANTS
    Settings,       \* what the file of settings may say: sequences of providers
    Defaults,       \* defaultWebSearchProviders
    HasKeys,        \* whether the environment has the keys that may be named
    SearchTime,     \* defaultWebSearchTimeout
    OwnTime, LeastTime, MostTime,   \* of a provider: default, least and most
    CloseTime,      \* the time to close a session
    MaxSaves        \* bound: settings saved

\* WebSearchProviderConfig; `sound' stands for what else is checked of it.
Sites == [name : STRING, type : STRING, time : Int, keyed : BOOLEAN, disabled : BOOLEAN,
          sound : BOOLEAN]

ASSUME SearchAssumption ==
    /\ Settings \cup {Defaults} \subseteq Seq(Sites)
    /\ {SearchTime, OwnTime, LeastTime, MostTime, CloseTime} \subseteq Nat \ {0}
    /\ LeastTime <= OwnTime /\ OwnTime <= MostTime /\ MaxSaves \in Nat /\ HasKeys \in BOOLEAN

VARIABLES
    settings,   \* the file: NoSettings, or a sequence of providers
    saves,      \* bound
    search,     \* the search or the test: where it is, its providers and the one
                \* at work, when its time and the provider's are up
    clock,      \* since it began
    attempts,   \* webSearchAttempt: the providers so far and what became of each
    given,      \* providers that gave a session
    deleted,    \* providers whose session was to be closed
    found       \* the provider whose content is returned, or none

searchVars == <<settings, saves, search, clock, attempts, given, deleted, found>>

NoSettings == <<>>
NoSearch == [at |-> "idle", test |-> FALSE, providers |-> <<>>, turn |-> 1, until |-> 0, limit |-> 0,
         session |-> FALSE, good |-> FALSE]

SearchInit ==
    /\ settings \in Settings \cup {NoSettings} /\ saves = 0 /\ search = NoSearch /\ clock = 0
    /\ attempts = <<>> /\ given = {} /\ deleted = {} /\ found = 0

-----------------------------------------------------------------------------
\* Settings

\* A provider of a kind nobody knows, and two of one name, spoil the settings.
Valid(list) ==
    /\ \A i \in DOMAIN list : list[i].type \in {"mcp", "tavily"} /\ list[i].sound
    /\ \A i, j \in DOMAIN list : i # j => list[i].name # list[j].name

\* The times are brought into their bounds, and tavily needs a key.
Bounded(t) == IF t <= 0 THEN OwnTime ELSE IF t < LeastTime THEN LeastTime
              ELSE IF t > MostTime THEN MostTime ELSE t
Normalized(list) ==
    [i \in DOMAIN list |-> [list[i] EXCEPT !.time = Bounded(@), !.keyed = @ \/ list[i].type = "tavily"]]

\* NormalizeWebSearchConfig, and a file that is written aside and moved.
SaveSettings(list) ==
    /\ saves < MaxSaves /\ saves' = saves + 1
    /\ settings' = IF Valid(list) /\ list # <<>> THEN Normalized(list) ELSE settings
    /\ UNCHANGED <<search, clock, attempts, given, deleted, found>>

\* A file that cannot be written leaves the settings as they were.
SaveFails ==
    /\ saves < MaxSaves /\ saves' = saves + 1
    /\ UNCHANGED <<settings, search, clock, attempts, given, deleted, found>>

\* loadProviders: the settings of the environment or the file, or the defaults.
Loaded == IF settings = NoSettings THEN Defaults ELSE settings

-----------------------------------------------------------------------------
\* A search

SearchGoes(at) == search' = [search EXCEPT !.at = at]

BeginSearch ==
    /\ search.at = "idle"
    /\ search' = IF Valid(Loaded) /\ Loaded # <<>>
                 THEN [NoSearch EXCEPT !.at = "next", !.providers = Normalized(Loaded),
                                           !.until = SearchTime]
                 ELSE [NoSearch EXCEPT !.at = "done"]
    /\ UNCHANGED <<settings, saves, clock, attempts, given, deleted, found>>

Usable(p) == ~p.disabled /\ (p.keyed => HasKeys)
Provider == search.providers[search.turn]
Earlier(s, t) == IF s < t THEN s ELSE t
Kind(p) == IF p.type = "mcp" THEN "initialize" ELSE "query"

\* TestWebSearchProvider asks one provider, as disabled as it may be, within its
\* own time.
BeginTest(p) ==
    /\ search.at = "idle"
    /\ search' = IF Valid(<<p>>) /\ (Normalized(<<p>>)[1].keyed => HasKeys)
                 THEN [NoSearch EXCEPT !.at = Kind(p), !.test = TRUE, !.providers = Normalized(<<p>>),
                          !.until = Bounded(p.time), !.limit = Bounded(p.time)]
                 ELSE [NoSearch EXCEPT !.at = "done"]
    /\ UNCHANGED <<settings, saves, clock, attempts, given, deleted, found>>

PassProvider ==
    /\ search.at = "next" /\ search.turn <= Len(search.providers) /\ ~Usable(Provider)
    /\ search' = [search EXCEPT !.turn = @ + 1] /\ attempts' = Append(attempts, "skipped")
    /\ UNCHANGED <<settings, saves, clock, given, deleted, found>>

AskProvider ==
    /\ search.at = "next" /\ search.turn <= Len(search.providers) /\ Usable(Provider)
    /\ search' = [search EXCEPT !.at = Kind(Provider), !.session = FALSE, !.good = FALSE,
                     !.limit = Earlier(clock + Provider.time, search.until)]
    /\ UNCHANGED <<settings, saves, clock, attempts, given, deleted, found>>

NoMore ==
    /\ search.at = "next" /\ search.turn > Len(search.providers) /\ SearchGoes("done")
    /\ UNCHANGED <<settings, saves, clock, attempts, given, deleted, found>>

-----------------------------------------------------------------------------
\* One provider

\* runExaMCP: a server that says no to the opening keeps the session it gave.
Initialize ==
    /\ search.at = "initialize" /\ clock < search.limit
    /\ \E session \in BOOLEAN :
          /\ search' = [search EXCEPT !.at = "announce", !.session = session]
          /\ given' = IF session THEN given \cup {search.turn} ELSE given
    /\ UNCHANGED <<settings, saves, clock, attempts, deleted, found>>

\* The deferred closeRemoteMCPSession, if there is a session to close.
AfterAsking == IF search.session THEN "close" ELSE "judge"

Announce ==
    /\ search.at = "announce" /\ clock < search.limit /\ SearchGoes("call")
    /\ UNCHANGED <<settings, saves, clock, attempts, given, deleted, found>>

\* extractMCPToolText, or the results of tavily
Brought ==
    /\ search.at \in {"call", "query"} /\ clock < search.limit
    /\ search' = [search EXCEPT !.at = AfterAsking, !.good = TRUE]
    /\ UNCHANGED <<settings, saves, clock, attempts, given, deleted, found>>

\* The time is up, the request fails, or its answer is an error or has nothing.
RequestFails ==
    /\ search.at \in {"initialize", "announce", "call", "query"}
    /\ search' = [search EXCEPT !.at = AfterAsking]
    /\ UNCHANGED <<settings, saves, clock, attempts, given, deleted, found>>

\* closeRemoteMCPSession has a time of its own, and what becomes of it is
\* ignored.
CloseSession ==
    /\ search.at = "close" /\ deleted' = deleted \cup {search.turn}
    /\ SearchGoes("judge") /\ \E d \in 0 .. CloseTime : clock' = clock + d
    /\ UNCHANGED <<settings, saves, attempts, given, found>>

\* Variant with a defect: the time of a provider is taken for the time of all.
TimeIsUpForOne == clock >= search.limit

\* runCtx.Err()
TimeIsUp == clock >= search.until

Judge ==
    /\ search.at = "judge"
    /\ \/ /\ search.good /\ SearchGoes("done") /\ found' = search.turn
          /\ attempts' = Append(attempts, "success")
       \/ /\ ~search.good /\ attempts' = Append(attempts, "failed") /\ UNCHANGED found
          /\ search' = IF TimeIsUp \/ search.test THEN [search EXCEPT !.at = "done"]
                       ELSE [search EXCEPT !.at = "next", !.turn = @ + 1]
    /\ UNCHANGED <<settings, saves, clock, given, deleted>>

\* A request takes its time.
RequestTakesTime ==
    /\ search.at \in {"initialize", "announce", "call", "query"} /\ clock < search.limit
    /\ clock' = clock + 1
    /\ UNCHANGED <<settings, saves, search, attempts, given, deleted, found>>

SearchNext ==
    \/ \E list \in Settings : SaveSettings(list)
    \/ SaveFails
    \/ BeginSearch \/ \E list \in Settings : \E i \in DOMAIN list : BeginTest(list[i])
    \/ PassProvider \/ AskProvider \/ NoMore \/ Initialize \/ Announce \/ Brought \/ RequestFails
    \/ CloseSession \/ Judge \/ RequestTakesTime
    \/ search.at = "done" /\ UNCHANGED searchVars

-----------------------------------------------------------------------------
\* A search keeps to the order of its providers and goes on to the next after a
\* provider that was slow, failed or had nothing (README.md:278), as long as its
\* time lasts, and though the settings are changed under it.
SearchFallsBack ==
    search.at = "done" /\ ~search.test =>
        /\ \A i \in DOMAIN search.providers :
              \/ i <= Len(attempts) /\ (attempts[i] = "skipped" <=> ~Usable(search.providers[i]))
              \/ i > Len(attempts) /\ (found # 0 \/ clock >= search.until)
        /\ found # 0 => found = Len(attempts) /\ attempts[found] = "success"

\* No session that was opened with a provider is left open, however the search
\* went on from there.
SessionsAreClosed == search.at \in {"next", "done"} => given \subseteq deleted

\* A search goes through its providers as promised and leaves no session open.
SearchSafe == SearchFallsBack /\ SessionsAreClosed
=============================================================================
