--------------------------- MODULE ReplyDelivery ---------------------------
(***************************************************************************)
(* One message that is to be answered (replyAndRecord, replyTo): which     *)
(* branch answers it, the calls its answer is made of, and what is done    *)
(* when one of them fails: another form of the same content, an excuse, or *)
(* another attempt by the inbox.  An answer about recalled messages is     *)
(* itself to be recalled a minute later.                                   *)
(*                                                                         *)
(* What a model says is left out; the delays of the delivery gate are in   *)
(* OutboundGate, the restrictions of users in ReplyControl, the tasks that *)
(* an answer starts in SubagentTasks.                                      *)
(***************************************************************************)
EXTENDS Integers, FiniteSets, Sequences

CONSTANTS
    Videos,      \* what the links of the message lead to
    MaxParts,    \* bound: messages one answer is split into
    InboxAttempts, \* the inbox's attempts at a message
    MaxFaults    \* bound: calls that fail

ASSUME DeliveryConstants ==
    /\ IsFiniteSet(Videos) /\ {MaxParts, InboxAttempts} \subseteq Nat \ {0} /\ MaxFaults \in Nat

VARIABLES
    answer,  \* the attempt under way
    shown,   \* what QQ has taken for the conversation, in order
    due,     \* messages with a timer that will recall them
    gone,    \* messages that delete_msg was called for
    settled, \* what the inbox notes of the message
    inGroup, \* the message is of a group, and the gate retries
    faults   \* bound

deliveryVars == <<answer, shown, due, gone, settled, inGroup, faults>>

NotBegun ==
    [at |-> "idle", try |-> 0, part |-> 1, parts |-> 1, secret |-> FALSE, nested |-> FALSE,
     deleted |-> FALSE, alt |-> FALSE, nodes |-> 0, videos |-> {}, links |-> {},
     uploads |-> {}, ids |-> {}]

DeliveryInit ==
    /\ answer = NotBegun /\ shown = <<>> /\ due = {} /\ gone = {}
    /\ settled = "no" /\ inGroup \in BOOLEAN /\ faults = 0

-----------------------------------------------------------------------------
\* Calls of QQ

Step(at) == answer.at = at /\ settled = "no"
After(at) == [answer EXCEPT !.at = at]

\* A message as QQ has it: the videos it carries or links to, whether it tells
\* what was recalled, and whether the bot knows that it was taken.
Message(videos, known) ==
    [videos |-> videos, secret |-> answer.secret, known |-> known, try |-> answer.try]

Settle(as) == settled' = as /\ UNCHANGED answer

\* executeOutboundCall with what comes after it.  A failed call may have been
\* carried out.  In a group it is made again, unless there is another form to
\* fall back to; and there the message may be dropped, or the group left.
\* A restriction stops an answer before any of its calls.
OutboundCall(videos, visible, done, failed) ==
    /\ UNCHANGED <<due, gone, inGroup>>
    /\ \/ /\ shown' = IF visible THEN Append(shown, Message(videos, TRUE)) ELSE shown
          /\ answer' = done /\ UNCHANGED <<settled, faults>>
       \/ /\ faults < MaxFaults /\ faults' = faults + 1
          /\ \/ UNCHANGED shown
             \/ visible /\ shown' = Append(shown, Message(videos, FALSE))
          /\ answer' = IF inGroup /\ ~answer.alt THEN answer ELSE failed
          /\ UNCHANGED settled
       \/ /\ faults < MaxFaults /\ faults' = faults + 1
          /\ \/ inGroup /\ ~answer.alt /\ Settle("dropped")
             \/ Settle("ignored")
          /\ UNCHANGED shown

\* The message that is sent next, as a number that is its id.
NextId == Len(shown) + 1

-----------------------------------------------------------------------------
\* Which branch answers

\* replyTo: an order of the owner is answered with a text, a plugin may have the
\* answer, and a link is resolved; a question about recalled messages goes to
\* the model, perhaps to be answered with a card of the originals, and
\* everything else to the router first.  The registry of tools may fail.
Attempt ==
    /\ Step("idle") /\ answer.try < InboxAttempts
    /\ LET begun == [NotBegun EXCEPT !.try = answer.try + 1] IN
       \/ answer' = [begun EXCEPT !.at = "text"]
       \/ answer' = [begun EXCEPT !.at = "resolve"]
       \/ answer' = [begun EXCEPT !.at = "route"]
       \/ \E nested, deleted \in BOOLEAN :
             answer' = [begun EXCEPT !.at = "generate", !.secret = TRUE,
                           !.nested = nested, !.deleted = nested \/ deleted]
       \/ answer' = [begun EXCEPT !.at = "excuse"]
    /\ UNCHANGED <<shown, due, gone, settled, inGroup, faults>>

\* sendWithMessageIDsMode: a number of parts, or one card for a long answer
Texts == {[After("text") EXCEPT !.parts = n] : n \in 1 .. MaxParts} \cup {After("longCard")}

\* routeReplyIntent: a picture the user may not have, or one without a
\* description, is refused; one that can be drawn is queued, which may fail.
Route ==
    /\ Step("route")
    /\ \E at \in {"text", "generate", "excuse"} : answer' = After(at)
    /\ UNCHANGED <<shown, due, gone, settled, inGroup, faults>>

\* generateReply
AskModel ==
    /\ Step("generate")
    /\ \/ answer' = After("excuse")
       \/ answer.nested /\ answer' = [After("originals") EXCEPT !.alt = TRUE]
       \/ ~answer.nested /\ answer' \in Texts
    /\ UNCHANGED <<shown, due, gone, settled, inGroup, faults>>

\* Variant with a defect: the id of the last message only.
CollectedLast == {NextId}

\* The ids of an answer's messages, of which the new one is the last.
Collected == answer.ids \cup {NextId}

\* One part after another; an error ends the attempt, and with it what is
\* known of the parts that were sent.
SendText ==
    /\ Step("text")
    /\ OutboundCall({}, TRUE,
          [answer EXCEPT !.at = IF answer.part = answer.parts THEN "sent" ELSE "text",
                         !.part = @ + 1, !.ids = Collected],
          After("failed"))

\* sendForwardReplyWithResult
SendLongCard ==
    /\ Step("longCard")
    /\ OutboundCall({}, TRUE, [After("sent") EXCEPT !.ids = Collected], After("failed"))

\* sendNestedForwardPluginResponse: the originals with their media, else as
\* text, else the summary alone
SendOriginals ==
    /\ Step("originals")
    /\ OutboundCall({}, TRUE, [After("sent") EXCEPT !.ids = Collected],
          [After("asText") EXCEPT !.alt = FALSE])

SendAsText ==
    /\ Step("asText")
    /\ \E summary \in Texts :
          OutboundCall({}, TRUE, [After("sent") EXCEPT !.ids = Collected], summary)

\* scheduleMessageDeletes, and the answer is recorded
Finish ==
    /\ Step("sent") /\ Settle("replied")
    /\ due' = IF answer.deleted THEN due \cup answer.ids ELSE due
    /\ UNCHANGED <<shown, gone, inGroup, faults>>

-----------------------------------------------------------------------------
\* Links

\* ResolverPlugin.Handle and prepareForwardResolverVideoDelivery: nothing the
\* user may have, a text, or a card with a node for the text and one for each
\* video that could be downloaded.  A video is linked to when it can be
\* shared, and otherwise uploaded after the card.
Resolve ==
    /\ Step("resolve")
    /\ \/ Settle("replied")
       \/ answer' = After("text") /\ UNCHANGED settled
       \/ \E videos \in SUBSET Videos : \E shared \in SUBSET videos :
             /\ answer' = [After("stage") EXCEPT !.videos = videos, !.links = shared,
                              !.uploads = videos \ shared, !.alt = shared # {},
                              !.nodes = 1 + Cardinality(shared)]
             /\ UNCHANGED settled
    /\ UNCHANGED <<shown, due, gone, inGroup, faults>>

\* Variant with a defect: only what was to be uploaded before is uploaded.
FallbackWithoutShared ==
    IF ~answer.alt THEN After("failed")
    ELSE [After("stage") EXCEPT !.alt = FALSE, !.links = {}, !.nodes = 1]

\* sendForwardPluginResponse: a card that fails is made anew without links, and
\* every video uploaded.
Fallback ==
    IF ~answer.alt THEN After("failed")
    ELSE [After("stage") EXCEPT !.alt = FALSE, !.links = {}, !.nodes = 1,
                                !.uploads = answer.videos]

AfterCard(uploads) == IF uploads = {} THEN "sent" ELSE "notice"

\* sendRealForwardMessages: each node is sent to the bot itself, and the card
\* made of them.
Stage ==
    /\ Step("stage")
    /\ OutboundCall({}, FALSE,
          [answer EXCEPT !.at = IF answer.nodes = 1 THEN "card" ELSE "stage", !.nodes = @ - 1],
          Fallback)

SendCard ==
    /\ Step("card")
    /\ OutboundCall(answer.links, TRUE, After(AfterCard(answer.uploads)), Fallback)

SendNotice ==
    /\ Step("notice")
    /\ OutboundCall({}, TRUE, After("upload"), After("failed"))

\* uploadResolverVideoFile
Upload ==
    /\ Step("upload")
    /\ \E v \in answer.uploads :
          OutboundCall({v}, TRUE,
             [After(AfterCard(answer.uploads \ {v})) EXCEPT !.uploads = @ \ {v}],
             After("failed"))

-----------------------------------------------------------------------------
\* What comes after

\* replyAndRecord: an error that is not one of delivery is told to the user.
Excuse ==
    /\ Step("excuse")
    /\ OutboundCall({}, TRUE, After("excused"), After("failed"))

Excused ==
    /\ Step("excused") /\ Settle("error_replied")
    /\ UNCHANGED <<shown, due, gone, inGroup, faults>>

\* The error goes back to the inbox, which tries again or gives up.
GiveBack ==
    /\ Step("failed")
    /\ IF answer.try < InboxAttempts
       THEN answer' = [NotBegun EXCEPT !.try = answer.try] /\ UNCHANGED settled
       ELSE Settle("failed")
    /\ UNCHANGED <<shown, due, gone, inGroup, faults>>

\* A minute later; an error is logged, and the timer is not set again.
Recall(i) ==
    /\ i \in due /\ due' = due \ {i} /\ gone' = gone \cup {i}
    /\ UNCHANGED <<answer, shown, settled, inGroup, faults>>

DeliveryNext ==
    \/ Attempt \/ Route \/ AskModel \/ SendText \/ SendLongCard \/ SendOriginals \/ SendAsText
    \/ Finish \/ Resolve \/ Stage \/ SendCard \/ SendNotice \/ Upload
    \/ Excuse \/ Excused \/ GiveBack
    \/ \E i \in due : Recall(i)

DeliverySpec == DeliveryInit /\ [][DeliveryNext]_deliveryVars

-----------------------------------------------------------------------------
Taken == DOMAIN shown

\* Type invariant of the delivery.
DeliveryTypeOK ==
    /\ answer.try \in 0 .. InboxAttempts /\ answer.part \in 1 .. MaxParts + 1
    /\ answer.links \cup answer.uploads \subseteq answer.videos
    /\ answer.ids \cup due \cup gone \subseteq Taken
    /\ settled \in {"no", "replied", "error_replied", "dropped", "ignored", "failed"}
    /\ faults \in 0 .. MaxFaults

\* What the attempt that settled the message is known to have sent
Delivered == {i \in Taken : shown[i].known /\ shown[i].try = answer.try}

\* A message that is recorded as replied to has had an answer that QQ took,
\* whichever of the forms it was; only a link the user may not follow has none.
AnsweredMeansShown ==
    /\ settled = "replied" /\ answer.at # "resolve" => Delivered # {}
    /\ settled = "error_replied" => Delivered # {}

\* Every video reaches the user with it, by a link or as a file and not by
\* both, also when the card with the links failed.
VideosArrive ==
    settled = "replied" =>
       \A v \in answer.videos : Cardinality({i \in Delivered : v \in shown[i].videos}) = 1

\* "The reply to a request to see recalled messages is recalled a minute after
\* it was sent" (App.vue:1422): every message of it that is known to have been
\* sent has its timer, of all the parts or forms it took.
DisclosuresGo ==
    settled = "replied" /\ answer.deleted =>
       \A i \in Delivered : shown[i].secret => i \in due \cup gone

\* What is recorded as answered has been shown, with each of its videos once,
\* whichever cards and fallbacks failed on the way.
DeliverySafe == DeliveryTypeOK /\ AnsweredMeansShown /\ VideosArrive
=============================================================================
