------------------------------ MODULE FileLookup ------------------------------
(***************************************************************************)
(* How the file plugin gets at the files of a mail (qqbot/file_plugin.go,  *)
(* up to the reading of what is in them).  A file comes with an id that    *)
(* NapCat, which connects QQ, keeps in memory only: after it restarted,    *)
(* the file is looked for by its name on NapCat's disk and in the history  *)
(* of the group, whose pages give it a new id.                             *)
(*                                                                         *)
(* A file is named by the number of its message in the group; ids by that  *)
(* number and the run of NapCat that gave them.                            *)
(***************************************************************************)
EXTENDS Integers, Sequences, SequencesExt, FiniteSets

CONSTANTS
    GroupLogs,      \* the group's messages, oldest first: each the name of a file, or Talk
    Talk,
    Unreadable,     \* names that are not of supported files
    Parcels,        \* mails: the files they refer to, and whether they speak of files
    PageSize,       \* messages on a page of the history
    MaxPages,       \* pages that are looked through
    MaxCrashes,     \* bound: restarts of NapCat
    MaxRefusals     \* bound: calls that fail though they could be answered

References ==
    [message : Nat, from : {"own", "quoted", "recent"}, grouped : BOOLEAN, linked : BOOLEAN]

ASSUME LookupAssumption ==
    /\ PageSize \in Nat \ {0, 1} /\ MaxPages \in Nat \ {0} /\ {MaxCrashes, MaxRefusals} \subseteq Nat
    /\ \A group \in GroupLogs : group \in Seq(Range(group))
    /\ \A parcel \in Parcels : parcel.refs \in Seq(References)

VARIABLES
    log,        \* the group's messages
    napcat,     \* its run, the ids it knows, the files on its disk
    lookup,     \* Handle: the references, the one at work, and how far it is
    readings,   \* of each reference that is done: the file that was read, as
                \* what, and whether nothing was in the way
    refusals    \* bound

fileVars == <<log, napcat, lookup, readings, refusals>>

Uploads == {m \in DOMAIN log : log[m] # Talk}
NoLookup == [at |-> "idle", refs |-> <<>>, nth |-> 1, id |-> <<0, 0>>, asks |-> <<>>,
             renewed |-> FALSE, seq |-> 0, page |-> 0, place |-> 0, late |-> FALSE, clear |-> TRUE]

LookupInit ==
    /\ log \in GroupLogs
    /\ \E disk \in SUBSET Uploads :
          napcat = [run |-> 0, ids |-> {<<m, 0>> : m \in Uploads}, disk |-> disk]
    /\ lookup = NoLookup /\ readings = <<>> /\ refusals = 0

\* NapCat forgets its ids, and what is asked of it meanwhile finds a new run.
RestartNapCat ==
    /\ napcat.run < MaxCrashes
    /\ napcat' = [napcat EXCEPT !.run = @ + 1, !.ids = {}]
    /\ lookup' = [lookup EXCEPT !.clear = FALSE]
    /\ UNCHANGED <<log, readings, refusals>>

-----------------------------------------------------------------------------
\* Which files

\* The mail's own files and those it quotes; recent ones if it speaks of files.
\* Of the references with one key, the first stays.
Key(ref) == IF ref.linked THEN <<"url", ref.message>> ELSE <<"id", ref.message>>
Kept(parcel) ==
    LET Takes(refs, ref) ==
            /\ ref.from # "recent" \/ parcel.mentions
            /\ log[ref.message] \notin Unreadable
            /\ \A i \in DOMAIN refs : Key(refs[i]) # Key(ref)
        kept[n \in 0 .. Len(parcel.refs)] ==
            IF n = 0 THEN <<>>
            ELSE IF Takes(kept[n - 1], parcel.refs[n]) THEN Append(kept[n - 1], parcel.refs[n])
            ELSE kept[n - 1]
    IN  kept[Len(parcel.refs)]

CollectFiles(parcel) ==
    /\ lookup.at = "idle"
    /\ \A i \in DOMAIN parcel.refs : parcel.refs[i].message \in Uploads
    /\ lookup' = [NoLookup EXCEPT !.refs = Kept(parcel),
                     !.at = IF Kept(parcel) = <<>> THEN "ignored" ELSE "next"]
    /\ UNCHANGED <<log, napcat, readings, refusals>>

-----------------------------------------------------------------------------
\* Where it is

Ref == lookup.refs[lookup.nth]
Name == log[Ref.message]

\* oneBotFileResolveRequests; the second time, the group is not asked for the
\* address.
AsksAgain(id) ==
    <<[how |-> "name", id |-> id], [how |-> "file_id", id |-> id], [how |-> "file", id |-> id]>>
Asks(id) == (IF Ref.grouped THEN <<[how |-> "url", id |-> id]>> ELSE <<>>) \o AsksAgain(id)

\* The time for a file begins anew; NapCat is as it is.
BeginFile ==
    /\ lookup.at = "next" /\ lookup.nth <= Len(lookup.refs)
    /\ lookup' = [NoLookup EXCEPT !.refs = lookup.refs, !.nth = lookup.nth, !.id = <<Ref.message, 0>>,
                     !.at = IF Ref.linked THEN "read" ELSE "ask",
                     !.asks = IF Ref.linked THEN <<>> ELSE Asks(<<Ref.message, 0>>),
                     !.place = IF Ref.linked THEN Ref.message ELSE 0]
    /\ UNCHANGED <<log, napcat, readings, refusals>>

\* What NapCat may answer with
GivenFor(ask) ==
    IF ask.how = "name" THEN {m \in napcat.disk : log[m] = Name}
    ELSE {m \in Uploads : ask.id = <<m, napcat.run>> /\ ask.id \in napcat.ids}

GetFile ==
    /\ lookup.at = "ask" /\ lookup.asks # <<>> /\ ~lookup.late
    /\ \E m \in GivenFor(Head(lookup.asks)) :
          /\ lookup' = [lookup EXCEPT !.at = "read", !.place = m]
          /\ napcat' = IF Head(lookup.asks).how = "url" THEN napcat
                       ELSE [napcat EXCEPT !.disk = @ \cup {m}]
    /\ UNCHANGED <<log, readings, refusals>>

AskNext == [lookup EXCEPT !.asks = Tail(@)]

NotThere ==
    /\ lookup.at = "ask" /\ lookup.asks # <<>>
    /\ lookup.late \/ GivenFor(Head(lookup.asks)) = {}
    /\ lookup' = AskNext
    /\ UNCHANGED <<log, napcat, readings, refusals>>

Refusal == refusals < MaxRefusals /\ refusals' = refusals + 1

CallFails ==
    /\ lookup.at = "ask" /\ lookup.asks # <<>> /\ Refusal
    /\ lookup' = [AskNext EXCEPT !.clear = FALSE]
    /\ UNCHANGED <<log, napcat, readings>>

\* The 45 seconds of a file are up: whatever is asked from now on fails.
TimeIsOver ==
    /\ lookup.at \in {"ask", "history"} /\ ~lookup.late /\ Refusal
    /\ lookup' = [lookup EXCEPT !.late = TRUE, !.clear = FALSE]
    /\ UNCHANGED <<log, napcat, readings>>

\* Variant with a defect: after the history has given a new id, the requests
\* are made again with the old one.
RenewedWithOld(id) ==
    [lookup EXCEPT !.at = "ask", !.renewed = TRUE, !.id = id, !.asks = AsksAgain(lookup.id)]

\* The requests are made again, with the id the history gave if it did.
Renewed(id) == [lookup EXCEPT !.at = "ask", !.renewed = TRUE, !.id = id, !.asks = AsksAgain(id)]

SearchHistory ==
    /\ lookup.at = "ask" /\ lookup.asks = <<>> /\ ~lookup.renewed
    /\ lookup' = IF Ref.grouped THEN [lookup EXCEPT !.at = "history"] ELSE Renewed(lookup.id)
    /\ UNCHANGED <<log, napcat, readings, refusals>>

\* A page ends with the message it is asked for, the first one with the newest.
PageEnd == IF lookup.page = 0 THEN Len(log) ELSE lookup.seq
PageOf == {m \in DOMAIN log : PageEnd - PageSize < m /\ m <= PageEnd}
Oldest == CHOOSE m \in PageOf : \A k \in PageOf : m <= k

\* The newest file of that name, whether it is the one that is meant or not
Namesakes == {m \in PageOf : log[m] = Name}

TurnPage ==
    /\ lookup.at = "history" /\ ~lookup.late
    /\ napcat' = [napcat EXCEPT !.ids = @ \cup {<<m, napcat.run>> : m \in PageOf \cap Uploads}]
    /\ lookup' = IF Namesakes # {}
                 THEN Renewed(<<CHOOSE m \in Namesakes : \A k \in Namesakes : k <= m, napcat.run>>)
                 ELSE IF (lookup.page > 0 /\ Oldest = lookup.seq) \/ lookup.page + 1 = MaxPages
                 THEN Renewed(lookup.id)
                 ELSE [lookup EXCEPT !.seq = Oldest, !.page = @ + 1]
    /\ UNCHANGED <<log, readings, refusals>>

PageIsRefused ==
    /\ lookup.at = "history"
    /\ \/ lookup.late /\ UNCHANGED refusals /\ lookup' = Renewed(lookup.id)
       \/ ~lookup.late /\ Refusal /\ lookup' = [Renewed(lookup.id) EXCEPT !.clear = FALSE]
    /\ UNCHANGED <<log, napcat, readings>>

NowhereFound ==
    /\ lookup.at = "ask" /\ lookup.asks = <<>> /\ lookup.renewed
    /\ lookup' = [lookup EXCEPT !.at = "read"]
    /\ UNCHANGED <<log, napcat, readings, refusals>>

-----------------------------------------------------------------------------
\* What it says

\* A text, a scanned document for the OCR task, or the reason why there is
\* neither: no address, no answer, too long, or nothing in it.
ReadAs == IF lookup.place = 0 THEN {"error"} ELSE {"text", "scanned", "error"}

ReadFile ==
    /\ lookup.at = "read"
    /\ \E as \in ReadAs :
          readings' = Append(readings, [ref |-> Ref, place |-> lookup.place, as |-> as, clear |-> lookup.clear])
    /\ lookup' = [lookup EXCEPT !.at = "next", !.nth = @ + 1]
    /\ UNCHANGED <<log, napcat, refusals>>

\* One scanned document makes a task of the answer, which takes what the others
\* say with it.
Documents == {i \in DOMAIN readings : readings[i].as = "scanned"}
AnswerFiles ==
    /\ lookup.at = "next" /\ lookup.nth > Len(lookup.refs)
    /\ lookup' = [lookup EXCEPT !.at = IF Documents # {} THEN "task" ELSE "context"]
    /\ UNCHANGED <<log, napcat, readings, refusals>>

FilesNext ==
    \/ RestartNapCat \/ \E parcel \in Parcels : CollectFiles(parcel)
    \/ BeginFile \/ GetFile \/ NotThere \/ CallFails \/ TimeIsOver
    \/ SearchHistory \/ TurnPage \/ PageIsRefused \/ NowhereFound \/ ReadFile \/ AnswerFiles
    \/ lookup.at \in {"ignored", "task", "context"} /\ UNCHANGED fileVars

-----------------------------------------------------------------------------
\* A group's file that the pages still show is found, whatever NapCat has
\* forgotten before, unless a call fails or NapCat restarts while it is looked
\* for; and the file that is read has the name of the one that is meant.
InReach(m) == m > Len(log) - PageSize - (MaxPages - 1) * (PageSize - 1)
FileIsFound ==
    \A i \in DOMAIN readings :
        LET r == readings[i]
        IN  /\ r.clear /\ r.ref.grouped /\ InReach(r.ref.message) => r.place # 0
            /\ r.place # 0 => log[r.place] = log[r.ref.message]
=============================================================================
