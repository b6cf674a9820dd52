---------------------------- MODULE ChatHistory ----------------------------
(***************************************************************************)
(* What the bot remembers of one group: the recent messages in memory      *)
(* (Runtime.history) with the summary of what was before them, the table   *)
(* message_events, and the cache of the message history plugin, which also *)
(* keeps what was recalled.  Messages come from the inbox, in any order    *)
(* and perhaps again; a notice that one was recalled does not wait in the  *)
(* inbox and may overtake it.                                              *)
(*                                                                         *)
(* A message is the second it was sent in; of a record of a recall only    *)
(* whether it has the text is kept.  The plugin is installed and enabled.  *)
(***************************************************************************)
EXTENDS Integers, Sequences, SequencesExt

CONSTANTS
    LastSecond,   \* messages are sent in the seconds 1 .. LastSecond
    Regretted,    \* messages that may be recalled
    Window,       \* RecentContextLimit
    Threshold,    \* ContextSummaryThreshold
    CacheSize,    \* messageHistoryLimit
    MaxLapses,    \* bound: reads and writes of the table that fail
    MaxReloads    \* bound: restarts

ASSUME HistoryConstants ==
    /\ {LastSecond, Window, Threshold, CacheSize} \subseteq Nat \ {0}
    /\ Regretted \subseteq 1 .. LastSecond
    /\ Window <= Threshold /\ {MaxLapses, MaxReloads} \subseteq Nat

VARIABLES
    work,     \* how far each message is
    memory,   \* Runtime.history
    digest,   \* messages handed over to be summarised (a job of MemoryJobs)
    rows,     \* message_events without the notices
    cache,    \* the plugin's group map: nothing, the text, or that there is none
    order,    \* its list of inserted ids
    told,     \* its list of recalls
    notice,   \* the recall of each message: how far, and whether it has the text
    kept,     \* the notices in message_events
    known,    \* recalled messages of which the text was found
    lapses, reloads

messageVars == <<work, memory, digest, rows>>
pluginVars == <<cache, order, told>>
recallVars == <<notice, kept, known>>
historyVars == <<messageVars, pluginVars, recallVars, lapses, reloads>>

Said == 1 .. LastSecond
NoNotice == [at |-> "none", text |-> FALSE]

HistoryInit ==
    /\ work = [m \in Said |-> "away"] /\ memory = <<>> /\ digest = {} /\ rows = {}
    /\ cache = [m \in Said |-> "none"] /\ order = <<>> /\ told = <<>>
    /\ notice = [m \in Said |-> NoNotice] /\ kept = [m \in Said |-> "none"]
    /\ known = {} /\ lapses = 0 /\ reloads = 0

Fail == lapses < MaxLapses /\ lapses' = lapses + 1
Work == lapses' = lapses

\* appendLimit, and the end of a sequence
LastOf(s, n) == SubSeq(s, IF Len(s) > n THEN Len(s) - n + 1 ELSE 1, Len(s))

-----------------------------------------------------------------------------
\* Messages

\* A message is stored in the inbox, or stands there again after a failed
\* attempt; what the bot sent comes with the answer of QQ and as its echo.
Arrive(m) ==
    /\ work[m] \in {"away", "done"} /\ work' = [work EXCEPT ![m] = "queued"]
    /\ UNCHANGED <<memory, digest, rows, pluginVars, recallVars, lapses, reloads>>

\* MessageHistoryPlugin.store: the list of ids may hold one twice, and the
\* first of the two takes the message along.
ObserveMessage(m) ==
    /\ work[m] = "queued" /\ work' = [work EXCEPT ![m] = "observed"]
    /\ LET ids == Append(order, m) IN
       /\ order' = LastOf(ids, CacheSize)
       /\ cache' = [n \in Said |->
             IF Len(ids) > CacheSize /\ n = Head(ids) THEN "none"
             ELSE IF n = m THEN "text" ELSE cache[n]]
    /\ UNCHANGED <<memory, digest, rows, told, recallVars, lapses, reloads>>

\* Runtime.remember, with persistMessageEvent and enqueueContextSummary: what
\* goes beyond the threshold is summarised; an error of the table is logged.
Remember(m) ==
    /\ work[m] = "observed" /\ work' = [work EXCEPT ![m] = "done"]
    /\ LET all == Append(RemoveFirst(memory, m), m)
           old == SubSeq(all, 1, Len(all) - Window)
       IN  IF Len(all) > Threshold
           THEN memory' = LastOf(all, Window) /\ digest' = digest \cup ToSet(old)
           ELSE memory' = all /\ UNCHANGED digest
    /\ \/ rows' = rows \cup {m} /\ Work
       \/ rows' = rows /\ Fail
    /\ UNCHANGED <<pluginVars, recallVars, reloads>>

\* What is left of a sequence without some of its elements.
Omitting(s, gone) ==
    LET left[n \in 0 .. Len(s)] ==
            IF n = 0 THEN <<>>
            ELSE IF s[n] \in gone THEN left[n - 1]
            ELSE Append(left[n - 1], s[n])
    IN  left[Len(s)]

\* ListRecentMessageEvents: the newest rows, in the order they were sent
Recent == LastOf(Omitting([m \in Said |-> m], Said \ rows), Window)

\* Variant with a defect: the table's messages after those in memory.
MergedTableLast(stored, own) == LastOf(own \o Omitting(stored, ToSet(own)), Window)

\* mergeMessageHistory
Merged(stored, own) == LastOf(stored \o Omitting(own, ToSet(stored)), Window)

\* contextHistory, when the table cannot be read and when it can
Contexts ==
    LET own == LastOf(memory, Window)
    IN  {own} \cup {Merged(stored, own) : stored \in {Recent}}

-----------------------------------------------------------------------------
\* Recalls

\* A member recalls a message that QQ has delivered.
Recalled(m) ==
    /\ work[m] # "away" /\ notice[m].at = "none"
    /\ notice' = [notice EXCEPT ![m].at = "new"]
    /\ UNCHANGED <<messageVars, pluginVars, kept, known, lapses, reloads>>

Found(m) ==
    /\ notice' = [notice EXCEPT ![m] = [at |-> "looked", text |-> TRUE]]
    /\ known' = known \cup {m}

\* enrichRecallNotice: the table, then QQ, whose answer is stored
LookUp(m) ==
    /\ notice[m].at = "new"
    /\ \/ m \in rows /\ Found(m) /\ UNCHANGED rows /\ Work
       \/ /\ \/ m \notin rows /\ Work
             \/ m \in rows /\ Fail
          /\ \/ Found(m) /\ rows' \in {rows, rows \cup {m}}
             \/ /\ notice' = [notice EXCEPT ![m].at = "looked"]
                /\ UNCHANGED <<rows, known>>
    /\ UNCHANGED <<work, memory, digest, pluginVars, kept, reloads>>

\* Variant with a defect: what the cache knows stays in the cache.
ObserveNoticeAside(m) ==
    /\ notice[m].at = "looked"
    /\ LET text == notice[m].text \/ cache[m] = "text" IN
       /\ notice' = [notice EXCEPT ![m].at = "observed"]
       /\ known' = IF text THEN known \cup {m} ELSE known
       /\ cache' = [cache EXCEPT ![m] = IF text THEN "text" ELSE "blank"]
       /\ told' = LastOf(Append(told, [id |-> m, text |-> text]), CacheSize)
    /\ UNCHANGED <<messageVars, order, kept, lapses, reloads>>

\* observeNotice: what the notice has, or else the cache; a note that there is
\* nothing takes the place of the text.
ObserveNotice(m) ==
    /\ notice[m].at = "looked"
    /\ LET text == notice[m].text \/ cache[m] = "text" IN
       /\ notice' = [notice EXCEPT ![m] = [at |-> "observed", text |-> text]]
       /\ known' = IF text THEN known \cup {m} ELSE known
       /\ cache' = [cache EXCEPT ![m] = IF text THEN "text" ELSE "blank"]
       /\ told' = LastOf(Append(told, [id |-> m, text |-> text]), CacheSize)
    /\ UNCHANGED <<messageVars, order, kept, lapses, reloads>>

\* persistMessageEvent for the notice
KeepNotice(m) ==
    /\ notice[m].at = "observed"
    /\ notice' = [notice EXCEPT ![m].at = "kept"]
    /\ \/ kept' = [kept EXCEPT ![m] = IF notice[m].text THEN "text" ELSE "blank"] /\ Work
       \/ UNCHANGED kept /\ Fail
    /\ UNCHANGED <<messageVars, pluginVars, known, reloads>>

\* Handle: ListGroupRecallEvents, over which the plugin's own list goes
Reported(m) ==
    LET own == SelectLastInSeq(told, LAMBDA r : r.id = m)
    IN  IF own = 0 THEN kept[m] ELSE IF told[own].text THEN "text" ELSE "blank"

\* What is in memory ends, and so does a notice on its way; the inbox hands
\* out again what was under way.
Reload ==
    /\ reloads < MaxReloads /\ reloads' = reloads + 1
    /\ memory' = <<>> /\ order' = <<>> /\ told' = <<>>
    /\ cache' = [m \in Said |-> "none"]
    /\ work' = [m \in Said |-> IF work[m] = "observed" THEN "queued" ELSE work[m]]
    /\ notice' = [m \in Said |->
          IF notice[m].at = "kept" THEN notice[m] ELSE [NoNotice EXCEPT !.at = 
             IF notice[m].at = "none" THEN "none" ELSE "lost"]]
    /\ UNCHANGED <<digest, rows, kept, known, lapses>>

HistoryNext ==
    \/ \E m \in Said : Arrive(m) \/ ObserveMessage(m) \/ Remember(m)
    \/ \E m \in Regretted :
          Recalled(m) \/ LookUp(m) \/ ObserveNotice(m) \/ KeepNotice(m)
    \/ Reload

HistorySpec == HistoryInit /\ [][HistoryNext]_historyVars

-----------------------------------------------------------------------------
\* Type invariant of the history.
HistoryTypeOK ==
    /\ work \in [Said -> {"away", "queued", "observed", "done"}]
    /\ memory \in Seq(Said) /\ Len(memory) <= Threshold /\ IsInjective(memory)
    /\ digest \cup rows \cup known \subseteq Said
    /\ cache \in [Said -> {"none", "text", "blank"}]
    /\ order \in Seq(Said) /\ Len(order) <= CacheSize /\ Len(told) <= CacheSize
    /\ kept \in [Said -> {"none", "text", "blank"}]

\* The table shows a message before newer ones, and the memory has others that
\* it does not show.  These come last, and push the message out of the window:
\* of three that are prepared in the order 3, 1, 2, a window of two has 3 and 1.
Crowded(m) ==
    LET shown == ToSet(Recent) IN
    /\ m \in shown /\ \E n \in shown : n > m
    /\ \E n \in ToSet(LastOf(memory, Window)) : n \notin shown

\* A message is in the context that is read when it has been remembered, if it
\* is the newest, and also if it is so old that the table shows newer ones alone,
\* as when a backfill brings it; only one in between may be crowded out.
ContextHoldsMessage ==
    [][\A m \in Said : work[m] = "observed" /\ work'[m] = "done"
          => \A c \in Contexts' : Contains(c, m) \/ Crowded(m)']_historyVars

\* Every message is in its context: refuted, for a window of two or more.
RememberedIsShown ==
    [][\A m \in Said : work[m] = "observed" /\ work'[m] = "done"
          => \A c \in Contexts' : Contains(c, m)]_historyVars

\* Whoever asks what was recalled is told the text, if any of the table, QQ
\* and the cache had it when the notice came, and still after a restart, unless
\* the notice could not be stored.
RecalledTextIsTold ==
    \A m \in known : kept[m] # "none" => Reported(m) = "text"

\* A text the bot has is told: refuted, for a notice that comes while
\* its message waits in the inbox finds nothing, and the record is not filled
\* in when the message follows.
StoredTextIsTold ==
    \A m \in rows : kept[m] # "none" => Reported(m) = "text"

\* What is known of a recalled message survives cache, table and restart.
HistorySafe == HistoryTypeOK /\ RecalledTextIsTold
=============================================================================
