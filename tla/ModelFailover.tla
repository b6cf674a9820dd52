--------------------------- MODULE ModelFailover ---------------------------
(***************************************************************************)
(* One Generate call of an LLM provider that retries and changes profiles  *)
(* (llm_retry.go), and the profile set it may write (llm_profile_store.go),*)
(* which the web console edits at the same time (llm_config.go).           *)
(*                                                                         *)
(* A run makes its provider once, from a copy of the profiles, and calls   *)
(* Generate as often as it likes; AgentRun is such a run.  Both the run and *)
(* the console read the set, change their copy and write it back, and only  *)
(* the read and the write are under the lock of the store.  Its rows in the *)
(* database, read at the start alone, are left out.                         *)
(* What a model answers is a choice; a call takes no time or all the time   *)
(* it is given, the two ends of what can happen.                            *)
(***************************************************************************)
EXTENDS Integers, FiniteSets, Sequences, SequencesExt

CONSTANTS
    AgentRuns,
    Requests,       \* of the console
    ProfileIds,
    MaxRetries,     \* llmTransientMaxRetries
    TransientDelay, \* llmTransientRetryDelay
    Timeout,        \* ProviderConfig.Timeout
    Managed,        \* profiles whose client has timeouts of its own
    MaxEdits        \* bound: requests of the console

ASSUME FailoverConstants ==
    /\ AgentRuns \cap Requests = {} /\ Managed \subseteq ProfileIds
    /\ IsFiniteSet(ProfileIds) /\ ProfileIds # {}
    /\ {MaxRetries, TransientDelay, MaxEdits} \subseteq Nat
    /\ Timeout \in Nat \ {0}

VARIABLES
    set,        \* PersistentLLMProfileStore.data: [active, profiles]
    saving,     \* the set each writer is about to save
    gen,        \* the provider of each run, and its Generate
    left,       \* time to the deadline of the run
    cutoff,     \* the context of the Generate ends when this much is left
    cancelled,  \* runs whose context was cancelled
    edits

storeVars == <<set, saving, edits>>
failoverVars == <<storeVars, gen, left, cutoff, cancelled>>

Groups == {"chat", "routing"}
NotSaving == <<>>
NoProvider == [pc |-> "none"]

-----------------------------------------------------------------------------
(* Profile sets: profiles.go. *)

IdsOf(s) == {p.id : p \in ToSet(s.profiles)}
Position(s, id) == CHOOSE i \in DOMAIN s.profiles : s.profiles[i].id = id

\* ProfileSet.WithDefaults, for sets without empty or repeated ids.
WithDefaults(s) ==
    IF s.active \in IdsOf(s) \/ s.profiles = <<>> THEN s
    ELSE [s EXCEPT !.active = s.profiles[1].id]

Current(s) == s.profiles[Position(WithDefaults(s), WithDefaults(s).active)]

Rotated(s, i) == SubSeq(s, i, Len(s)) \o SubSeq(s, 1, i - 1)

\* The profiles of ps that are in S, in their order
Those(ps, S) ==
    LET those[i \in 0 .. Len(ps)] ==
          IF i = 0 THEN <<>>
          ELSE IF ps[i] \in S THEN Append(those[i - 1], ps[i]) ELSE those[i - 1]
    IN  those[Len(ps)]

InGroup(ps, g) == Those(ps, {p \in ToSet(ps) : p.group = g})

ActiveGroupProfiles(s) ==
    InGroup(Rotated(s.profiles, Position(s, Current(s).id)), Current(s).group)

Delete(s, id) ==
    WithDefaults([s EXCEPT !.profiles = Those(@, {p \in ToSet(@) : p.id # id})])

\* upsertProfileSet: the profile that is saved becomes the active one.
Upsert(s, id, g) ==
    [active |-> id,
     profiles |-> IF id \in IdsOf(s)
                  THEN [s.profiles EXCEPT ![Position(s, id)] =
                            [id |-> id, group |-> g, version |-> @.version + 1]]
                  ELSE Append(s.profiles, [id |-> id, group |-> g, version |-> 0])]

-----------------------------------------------------------------------------
(* The store. *)

BeginSave(w, s) == saving' = [saving EXCEPT ![w] = s]

\* SaveProfiles
Save(w) ==
    /\ saving[w] # NotSaving /\ set' = WithDefaults(saving[w])
    /\ saving' = [saving EXCEPT ![w] = NotSaving] /\ UNCHANGED edits

\* A handler of the console reads the set, changes its copy and saves it.
Edit(c, s) ==
    /\ saving[c] = NotSaving /\ edits < MaxEdits
    /\ edits' = edits + 1 /\ BeginSave(c, s)
    /\ UNCHANGED set

ActivateProfile(c) ==
    \E id \in IdsOf(set) : Edit(c, [set EXCEPT !.active = id])

\* A clone is saved like a new profile.
SaveConfig(c) == \E id \in ProfileIds, g \in Groups : Edit(c, Upsert(set, id, g))

DeleteProfile(c) ==
    /\ Len(set.profiles) > 1
    /\ \E id \in IdsOf(set) : Edit(c, Delete(set, id))

ImportProfiles(c) ==
    \E id \in ProfileIds :
        Edit(c, [active |-> id,
                 profiles |-> <<[id |-> id, group |-> "chat", version |-> 0]>>])

ConsoleStep(c) ==
    /\ \/ ActivateProfile(c) \/ SaveConfig(c) \/ DeleteProfile(c)
       \/ ImportProfiles(c) \/ Save(c)
    /\ UNCHANGED <<gen, left, cutoff, cancelled>>

-----------------------------------------------------------------------------
(* The provider of a run. *)

Over(r) == cancelled[r] \/ left[r] <= cutoff[r]

Provider(list, activates, retries, current, clients) ==
    [pc |-> "ready", list |-> list, activates |-> activates, retries |-> retries,
     current |-> current, clients |-> clients, offset |-> 0, attempt |-> 0,
     timeout |-> 0, tried |-> {}, result |-> "none"]

NewProvider(list, activates, retries) ==
    Provider(list, activates, IF retries THEN MaxRetries ELSE 0, 1,
             [i \in DOMAIN list |-> "unloaded"])

\* What is left of a Generate that has returned.
Kept(g) == Provider(g.list, g.activates, g.retries, g.current, g.clients)

\* runLLMProviderWithFailover, runLLMRouterProviderWithRetry and
\* runLLMProviderProfileAttempts: whose profiles, and what a success changes.
Providers(kind) ==
    LET routing == InGroup(set.profiles, "routing")
        routers == IF routing = <<>> THEN <<Current(set)>> ELSE routing
    IN  CASE kind = "chat"  -> {NewProvider(ActiveGroupProfiles(set), TRUE, TRUE)}
          [] kind = "route" -> {NewProvider(routers, FALSE, TRUE)}
          [] kind = "once"  -> {NewProvider(<<Head(routers)>>, FALSE, FALSE)}
          [] kind = "rule"  -> {NewProvider(<<p>>, FALSE, TRUE) :
                                    p \in ToSet(set.profiles)}

\* boundedInitialRetryTimeout
AttemptTimeout(remaining, retries) ==
    LET available == remaining - retries * TransientDelay
        bounded == available \div (retries + 1)
    IN  IF (retries + 1) * Timeout + retries * TransientDelay <= remaining THEN Timeout
        ELSE IF available <= 0 THEN remaining
        ELSE IF bounded = 0 THEN 1
        ELSE IF bounded < Timeout THEN bounded ELSE Timeout

Generate(r, end) ==
    /\ gen[r].pc = "ready"
    /\ gen' = [gen EXCEPT ![r].pc = "next"]
    /\ cutoff' = [cutoff EXCEPT ![r] = end]

Return(r, result) ==
    gen' = [gen EXCEPT ![r].pc = "returned", ![r].result = result]

\* Variant with a defect: the profiles before the current one are not tried.
IndexNoWrap(g) == IF g.current + g.offset > Len(g.list) THEN Len(g.list)
                  ELSE g.current + g.offset

Index(g) == ((g.current - 1 + g.offset) % Len(g.list)) + 1

\* What follows an error of the profile, at the time left that it happened.
AfterError(r, g, error, over) ==
    LET failed == [g EXCEPT !.tried = @ \cup {Index(g)}, !.result = error]
    IN  gen' = [gen EXCEPT ![r] =
            IF over THEN [failed EXCEPT !.pc = "returned", !.result = "ended"]
            ELSE IF error = "fatal" THEN [failed EXCEPT !.pc = "returned"]
            ELSE [failed EXCEPT !.pc = "next", !.offset = @ + 1,
                                !.attempt = 0, !.timeout = 0]]

\* The loop over the profiles; a client is made once, and so is its error.
NextProfile(r) ==
    LET g == gen[r]
    IN  /\ g.pc = "next"
        /\ IF g.offset = Len(g.list) THEN Return(r, g.result)
           ELSE IF Over(r) THEN Return(r, "ended")
           ELSE \E client \in IF g.clients[Index(g)] = "unloaded"
                              THEN {"loaded", "switch", "fatal"}
                              ELSE {g.clients[Index(g)]} :
                    LET loaded == [g EXCEPT !.clients[Index(g)] = client]
                    IN  IF client \in {"switch", "fatal"}
                        THEN AfterError(r, loaded, client, Over(r))
                        ELSE gen' = [gen EXCEPT ![r] =
                              [loaded EXCEPT !.pc = "call", !.attempt = 0,
                               !.timeout = IF g.list[Index(g)].id \in Managed THEN 0
                                  ELSE AttemptTimeout(left[r] - cutoff[r], g.retries)]]
        /\ UNCHANGED <<storeVars, left, cutoff, cancelled>>

\* The model answers, or fails at once: "transient" errors are retried with
\* the same profile, "switch" ones (a stall, a truncated answer, no quota)
\* only with another, "fatal" ones not at all.
Answer(r) ==
    LET g == gen[r]
    IN  /\ g.pc = "call"
        /\ gen' = [gen EXCEPT ![r].current = Index(g),
                              ![r].pc = IF g.activates THEN "activate" ELSE "returned",
                              ![r].result = "ok"]
        /\ UNCHANGED <<storeVars, left, cutoff, cancelled>>

Retryable(g, error) ==
    error \in {"transient", "late"} /\ g.attempt < g.retries

\* The error of a call that took so much time.
CallFails(r, error, time) ==
    LET g == gen[r]
        over == cancelled[r] \/ left[r] - time <= cutoff[r]
    IN  /\ g.pc = "call"
        /\ left' = [left EXCEPT ![r] = @ - time]
        /\ IF ~Retryable(g, error) THEN AfterError(r, g, error, over)
           ELSE IF over THEN AfterError(r, g, "ended", over)
           ELSE gen' = [gen EXCEPT ![r].pc = "pause"]
        /\ UNCHANGED <<storeVars, cutoff, cancelled>>

Fail(r) == \E error \in {"transient", "switch", "fatal"} : CallFails(r, error, 0)

\* The call ends with its context, or the client gives up on a silent model.
TimeOut(r) ==
    LET remaining == left[r] - cutoff[r]
        limit == gen[r].timeout
    IN  gen[r].pc = "call" /\
        CallFails(r, "late", IF cancelled[r] THEN 0
                             ELSE IF limit > 0 /\ limit < remaining THEN limit
                             ELSE remaining)

Pause(r) ==
    LET g == gen[r]
        short == left[r] - TransientDelay <= cutoff[r]
    IN  /\ g.pc = "pause"
        /\ IF cancelled[r] THEN AfterError(r, g, "ended", TRUE) /\ UNCHANGED left
           ELSE /\ left' = [left EXCEPT ![r] = IF short THEN cutoff[r]
                                               ELSE @ - TransientDelay]
                /\ IF short THEN AfterError(r, g, "ended", TRUE)
                   ELSE gen' = [gen EXCEPT ![r].pc = "call", ![r].attempt = @ + 1]
        /\ UNCHANGED <<storeVars, cutoff, cancelled>>

\* activateLLMProfile: the set is read, and its copy saved with another
\* active profile.
Activate(r) ==
    LET g == gen[r]
        id == g.list[g.current].id
    IN  /\ g.pc = "activate"
        /\ IF set.active = id
           THEN Return(r, "ok") /\ UNCHANGED saving
           ELSE /\ BeginSave(r, [set EXCEPT !.active = id])
                /\ gen' = [gen EXCEPT ![r].pc = "saving"]
        /\ UNCHANGED <<set, edits, left, cutoff, cancelled>>

Activated(r) ==
    /\ gen[r].pc = "saving" /\ saving[r] = NotSaving /\ Return(r, "ok")
    /\ UNCHANGED <<storeVars, left, cutoff, cancelled>>

SaveStep(r) ==
    /\ Save(r) /\ UNCHANGED <<gen, left, cutoff, cancelled>>

ProviderStep(r) ==
    \/ NextProfile(r) \/ Answer(r) \/ Fail(r) \/ TimeOut(r) \/ Pause(r)
    \/ Activate(r) \/ Activated(r) \/ SaveStep(r)

=============================================================================
