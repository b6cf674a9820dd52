---------------------------- MODULE AnswerProofs ----------------------------
(***************************************************************************)
(* Proofs about ReplyDelivery, for any videos, any number of parts and of  *)
(* attempts, and any number of calls that fail: what is recorded as        *)
(* answered was shown, with each of its videos once, and what was shown of *)
(* recalled messages is recalled in its turn.  About SubagentTasks, on     *)
(* OcrPool, for any number of tasks, pages, workers and slots: no half     *)
(* result is taken for a whole one, no key has two tasks, and users hear   *)
(* how their tasks ended.  About WebSearch, for any settings and times: a  *)
(* search keeps to its order and leaves no session open.  About           *)
(* ToolServers, for any servers: requests get their own answers, and no    *)
(* child process outlives the answer it was started for.  About            *)
(* PageRender, for any windows and deadlines: what is returned as stable   *)
(* was still.  And about MediaResolver, for any links and media: none is   *)
(* mixed up, lost unnoticed or left on the disk.                           *)
(***************************************************************************)
EXTENDS ReplyDelivery, SubagentTasks, WebSearch, ToolServers, PageRender, MediaResolver,
    FiniteSetTheorems, SequenceTheorems, WellFoundedInduction, TLAPS

-----------------------------------------------------------------------------
(* The delivery: the invariant. *)

Points == {"idle", "text", "resolve", "route", "generate", "excuse", "longCard",
           "originals", "asText", "sent", "stage", "card", "notice", "upload", "excused",
           "failed"}
Attempts ==
    [at : Points, try : 0 .. InboxAttempts, part : 1 .. MaxParts + 1, parts : 1 .. MaxParts,
     secret : BOOLEAN, nested : BOOLEAN, deleted : BOOLEAN, alt : BOOLEAN, nodes : Int,
     videos : SUBSET Videos, links : SUBSET Videos, uploads : SUBSET Videos, ids : SUBSET Nat]
Messages == [videos : SUBSET Videos, secret : BOOLEAN, known : BOOLEAN, try : 0 .. InboxAttempts]

\* What attempt t is known to have sent, of the messages s; and that of it
\* which carries a video
SentBy(s, t) == {i \in DOMAIN s : s[i].known /\ s[i].try = t}
With(s, t, v) == {i \in SentBy(s, t) : v \in s[i].videos}

\* Points at which an attempt has sent nothing that it knows of, and those at
\* which it may be about videos
Unsettled == {"resolve", "route", "generate", "excuse", "longCard", "originals", "asText",
               "stage", "card"}
OfVideos == {"stage", "card", "notice", "upload", "sent", "failed"}

\* An attempt a at its point, when s has been shown
PartsInOrder(a) ==
    /\ a.at = "text" => a.part <= a.parts
    /\ a.at \notin {"text", "sent", "failed"} => a.part = 1
ShownSoFar(a, s) ==
    /\ \A i \in DOMAIN s : s[i].try <= a.try
    /\ a.at \in Unsettled => SentBy(s, a.try) = {}
    /\ a.at \in {"sent", "excused"} => SentBy(s, a.try) # {}
SecretsNoted(a, s) ==
    /\ a.ids \subseteq DOMAIN s
    /\ a.at \in {"text", "notice", "upload", "sent"} =>
          \A i \in SentBy(s, a.try) : s[i].secret => i \in a.ids
    /\ a.at \in {"resolve", "stage", "card", "notice", "upload"} => ~a.secret /\ ~a.deleted
VideosPlaced(a, s) ==
    /\ a.at \notin OfVideos => a.videos = {}
    /\ a.links \cup a.uploads \subseteq a.videos
    /\ a.at \in {"stage", "card"} =>
          a.videos \subseteq a.links \cup a.uploads /\ a.links \cap a.uploads = {}
    /\ a.at \in {"notice", "upload", "sent"} =>
          \A v \in a.videos :
             IF v \in a.uploads THEN With(s, a.try, v) = {}
             ELSE \E i \in DOMAIN s : With(s, a.try, v) = {i}
    /\ a.at = "sent" => a.uploads = {}

Sound(a, s) ==
    /\ a \in Attempts /\ s \in Seq(Messages)
    /\ PartsInOrder(a) /\ ShownSoFar(a, s) /\ SecretsNoted(a, s) /\ VideosPlaced(a, s)

DeliveryInv ==
    /\ Sound(answer, shown)
    /\ due \cup gone \subseteq DOMAIN shown
    /\ settled \in {"no", "replied", "error_replied", "dropped", "ignored", "failed"}
    /\ settled = "replied" => answer.at \in {"resolve", "sent"}
    /\ settled = "error_replied" => answer.at = "excused"
    /\ DisclosuresGo
    /\ inGroup \in BOOLEAN /\ faults \in 0 .. MaxFaults

-----------------------------------------------------------------------------
(* The delivery: what a call does. *)

LEMMA DeliveryNumbers ==
    /\ MaxParts \in Nat /\ MaxParts > 0 /\ InboxAttempts \in Nat /\ InboxAttempts > 0
    /\ MaxFaults \in Nat /\ IsFiniteSet(Videos)
BY DeliveryConstants

\* One more message is shown.
LEMMA Shown ==
    ASSUME NEW s \in Seq(Messages), NEW m \in Messages
    PROVE  /\ Append(s, m) \in Seq(Messages)
           /\ DOMAIN Append(s, m) = DOMAIN s \cup {Len(s) + 1}
           /\ Len(s) + 1 \notin DOMAIN s /\ Len(s) + 1 \in Nat /\ DOMAIN s \subseteq Nat
           /\ Append(s, m)[Len(s) + 1] = m
           /\ \A i \in DOMAIN s : Append(s, m)[i] = s[i] /\ s[i] \in Messages
<1>1. Len(s) \in Nat /\ DOMAIN s = 1 .. Len(s)  OBVIOUS
<1> QED  BY <1>1

LEMMA ShownBy ==
    ASSUME NEW s \in Seq(Messages), NEW m \in Messages, NEW t, NEW v
    PROVE  /\ ~(m.known /\ m.try = t) =>
                 SentBy(Append(s, m), t) = SentBy(s, t)
                 /\ With(Append(s, m), t, v) = With(s, t, v)
           /\ m.known /\ m.try = t =>
                 /\ SentBy(Append(s, m), t) = SentBy(s, t) \cup {Len(s) + 1}
                 /\ With(Append(s, m), t, v) =
                       IF v \in m.videos THEN With(s, t, v) \cup {Len(s) + 1}
                       ELSE With(s, t, v)
<1>1. SentBy(Append(s, m), t) =
         IF m.known /\ m.try = t THEN SentBy(s, t) \cup {Len(s) + 1} ELSE SentBy(s, t)
  BY Shown DEF SentBy
<1>2. SentBy(s, t) \subseteq DOMAIN s  BY DEF SentBy
<1> QED  BY <1>1, <1>2, Shown DEF With

\* A message the bot does not know of changes nothing for its attempt.
LEMMA UnknownKeeps ==
    ASSUME NEW a, NEW s, Sound(a, s), NEW m \in Messages, ~m.known, m.try = a.try
    PROVE  Sound(a, Append(s, m))
<1> DEFINE z == Append(s, m)
<1>1. a \in Attempts /\ s \in Seq(Messages)  BY DEF Sound
<1>2. SentBy(z, a.try) = SentBy(s, a.try) /\ \A v : With(z, a.try, v) = With(s, a.try, v)
  BY <1>1, ShownBy
<1>3. /\ z \in Seq(Messages) /\ DOMAIN z = DOMAIN s \cup {Len(s) + 1}
      /\ z[Len(s) + 1] = m /\ \A i \in DOMAIN s : z[i] = s[i]
  BY <1>1, Shown
<1>4. SentBy(s, a.try) \subseteq DOMAIN s  BY DEF SentBy
<1> HIDE DEF z
<1>5. ShownSoFar(a, z)
  <2>1. a.try \in 0 .. InboxAttempts  BY <1>1 DEF Attempts
  <2>2. \A i \in DOMAIN z : z[i].try <= a.try
    BY <1>3, <2>1, DeliveryNumbers DEF Sound, ShownSoFar
  <2> QED  BY <1>2, <2>2 DEF Sound, ShownSoFar
<1>6. SecretsNoted(a, z)  BY <1>2, <1>3, <1>4 DEF Sound, SecretsNoted
<1>7. VideosPlaced(a, z)  BY <1>2, <1>3 DEF Sound, VideosPlaced
<1>8. Sound(a, z)  BY <1>1, <1>3, <1>5, <1>6, <1>7 DEF Sound
<1> QED  BY <1>8 DEF z

\* The attempt fails.
LEMMA FailedIsSound ==
    ASSUME NEW a, NEW s, Sound(a, s)
    PROVE  Sound([a EXCEPT !.at = "failed"], s) /\ [a EXCEPT !.at = "failed"].try = a.try
<1> DEFINE b == [a EXCEPT !.at = "failed"]
<1>1. b \in Attempts /\ b.at = "failed" /\ b.try = a.try /\ b.ids = a.ids
      /\ b.links = a.links /\ b.uploads = a.uploads /\ b.videos = a.videos
  BY DEF Sound, Attempts, Points
<1> HIDE DEF b
<1>2. PartsInOrder(b) /\ ShownSoFar(b, s) /\ SecretsNoted(b, s) /\ VideosPlaced(b, s)
  BY <1>1 DEF Sound, PartsInOrder, ShownSoFar, SecretsNoted, VideosPlaced, Unsettled, OfVideos
<1>3. Sound(b, s)  BY <1>1, <1>2 DEF Sound
<1> QED  BY <1>1, <1>3 DEF b

\* The invariant while the message is not settled
LEMMA NotSettled ==
    ASSUME DeliveryInv, settled' = "no", NEW a, NEW s, answer' = a, shown' = s, Sound(a, s),
           DOMAIN shown \subseteq DOMAIN s, UNCHANGED <<due, gone, inGroup>>,
           faults' \in 0 .. MaxFaults
    PROVE  DeliveryInv'
BY DEF DeliveryInv, DisclosuresGo

\* A call is carried out or not, and its error known or not: when what is to
\* come after each of these is sound, so is what comes.
LEMMA CallKeeps ==
    ASSUME DeliveryInv, settled = "no",
           NEW videos \in SUBSET Videos, NEW visible \in BOOLEAN, NEW done, NEW failed,
           OutboundCall(videos, visible, done, failed),
           Sound(done, IF visible THEN Append(shown, Message(videos, TRUE)) ELSE shown),
           Sound(failed, shown), failed.try = answer.try
    PROVE  DeliveryInv'
<1>1. /\ Sound(answer, shown) /\ shown \in Seq(Messages) /\ faults \in 0 .. MaxFaults
      /\ UNCHANGED <<due, gone, inGroup>>
  BY DEF DeliveryInv, Sound, OutboundCall
<1>2. \A known \in BOOLEAN : /\ Message(videos, known) \in Messages
                             /\ Message(videos, known).known = known
                             /\ Message(videos, known).try = answer.try
  BY <1>1 DEF Message, Messages, Sound, Attempts
<1>3. \A known \in BOOLEAN : DOMAIN shown \subseteq DOMAIN Append(shown, Message(videos, known))
  BY <1>1, <1>2, Shown
<1>4. CASE /\ shown' = IF visible THEN Append(shown, Message(videos, TRUE)) ELSE shown
           /\ answer' = done /\ UNCHANGED <<settled, faults>>
  BY <1>1, <1>3, <1>4, NotSettled
<1>5. CASE /\ faults < MaxFaults /\ faults' = faults + 1 /\ settled' = settled
           /\ shown' = shown \/ shown' = Append(shown, Message(videos, FALSE))
           /\ answer' = answer \/ answer' = failed
  <2>1. faults' \in 0 .. MaxFaults  BY <1>1, <1>5, DeliveryNumbers
  <2>2. Sound(answer, Append(shown, Message(videos, FALSE)))
        /\ Sound(failed, Append(shown, Message(videos, FALSE)))
    BY <1>1, <1>2, UnknownKeeps
  <2> QED  BY <1>1, <1>3, <1>5, <2>1, <2>2, NotSettled
<1>6. CASE /\ faults < MaxFaults /\ faults' = faults + 1 /\ UNCHANGED <<answer, shown>>
           /\ settled' \in {"dropped", "ignored"}
  <2>1. faults' \in 0 .. MaxFaults  BY <1>1, <1>6, DeliveryNumbers
  <2> QED  BY <1>1, <1>6, <2>1 DEF DeliveryInv, DisclosuresGo
<1> QED  BY <1>4, <1>5, <1>6 DEF OutboundCall, Settle

\* A step that is no call
LEMMA TurnKeeps ==
    ASSUME DeliveryInv, settled = "no", NEW a, answer' = a, Sound(a, shown),
           UNCHANGED <<shown, due, gone, settled, inGroup, faults>>
    PROVE  DeliveryInv'
BY NotSettled DEF DeliveryInv

-----------------------------------------------------------------------------
(* The delivery: each step. *)

\* A new attempt
LEMMA BegunIsSound ==
    ASSUME NEW a, NEW s, Sound(a, s), NEW b \in Attempts, b.try = a.try + 1, b.part = 1,
           b.at \in {"text", "resolve", "route", "generate", "excuse"},
           b.at # "generate" => ~b.secret /\ ~b.deleted,
           b.videos = {}, b.links = {}, b.uploads = {}, b.ids = {}
    PROVE  Sound(b, s)
<1>1. a.try \in Nat /\ \A i \in DOMAIN s : s[i] \in Messages /\ s[i].try <= a.try
  BY DEF Sound, Attempts, ShownSoFar
<1>2. \A i \in DOMAIN s : s[i].try <= b.try /\ s[i].try # b.try
  <2>1. \A i \in DOMAIN s : s[i].try \in Nat  BY <1>1 DEF Messages
  <2> QED  BY <1>1, <2>1
<1>3. SentBy(s, b.try) = {}  BY <1>2 DEF SentBy
<1>4. b.parts >= 1  BY DEF Attempts
<1>5. PartsInOrder(b) /\ ShownSoFar(b, s)
  BY <1>2, <1>3, <1>4 DEF PartsInOrder, ShownSoFar
<1>6. SecretsNoted(b, s) /\ VideosPlaced(b, s)
  BY <1>3 DEF SecretsNoted, VideosPlaced, OfVideos
<1> QED  BY <1>5, <1>6 DEF Sound

\* An attempt that has sent nothing yet takes another way.
LEMMA OnwardIsSound ==
    ASSUME NEW a, NEW s, Sound(a, s), NEW b \in Attempts,
           a.at \in Unsettled \ {"stage", "card"},
           b.at \in {"text", "generate", "excuse", "longCard", "originals", "asText"},
           b.try = a.try, b.part = a.part, b.ids = a.ids, b.videos = a.videos,
           b.links = a.links, b.uploads = a.uploads
    PROVE  Sound(b, s)
<1>1. a.part = 1 /\ SentBy(s, b.try) = {} /\ b.videos = {}
  BY DEF Sound, PartsInOrder, ShownSoFar, VideosPlaced, Unsettled, OfVideos
<1>2. b.parts >= 1  BY DEF Attempts
<1>3. PartsInOrder(b) /\ ShownSoFar(b, s)
  BY <1>1, <1>2 DEF Sound, PartsInOrder, ShownSoFar
<1>4. SecretsNoted(b, s) /\ VideosPlaced(b, s)
  BY <1>1 DEF Sound, SecretsNoted, VideosPlaced, OfVideos
<1> QED  BY <1>3, <1>4 DEF Sound

\* A message is shown that carries no video.
LEMMA AnsweredIsSound ==
    ASSUME NEW a, NEW s, Sound(a, s), NEW b \in Attempts, NEW m \in Messages,
           m.known, m.try = a.try,
           a.at \in {"text", "longCard", "originals", "asText", "excuse"},
           \/ b.at \in {"text", "sent"} /\ b.ids = a.ids \cup {Len(s) + 1}
              /\ (a.at = "excuse" => FALSE)
           \/ b.at = "excused" /\ b.ids = a.ids,
           b.at = "text" => b.part <= b.parts, b.at = "excused" => b.part = 1,
           b.try = a.try, b.videos = a.videos, b.links = a.links, b.uploads = a.uploads
    PROVE  Sound(b, Append(s, m))
<1> DEFINE z == Append(s, m)
<1>1. a \in Attempts /\ s \in Seq(Messages)  BY DEF Sound
<1>2. /\ z \in Seq(Messages) /\ DOMAIN z = DOMAIN s \cup {Len(s) + 1}
      /\ z[Len(s) + 1] = m /\ \A i \in DOMAIN s : z[i] = s[i]
  BY <1>1, Shown
<1>3. SentBy(z, b.try) = SentBy(s, a.try) \cup {Len(s) + 1}
  BY <1>1, ShownBy
<1>4. SentBy(s, a.try) \subseteq DOMAIN s  BY DEF SentBy
<1> HIDE DEF z
<1>5. PartsInOrder(b)  BY DEF PartsInOrder
<1>6. ShownSoFar(b, z)
  <2>1. a.try \in 0 .. InboxAttempts  BY <1>1 DEF Attempts
  <2>2. \A i \in DOMAIN z : z[i].try <= b.try
    BY <1>2, <2>1, DeliveryNumbers DEF Sound, ShownSoFar
  <2> QED  BY <1>3, <2>2 DEF ShownSoFar, Unsettled
<1>7. SecretsNoted(b, z)
  <2>1. b.ids \subseteq DOMAIN z  BY <1>2 DEF Sound, SecretsNoted
  <2>2. ASSUME b.at \in {"text", "sent"}, NEW i \in SentBy(z, b.try), z[i].secret
        PROVE  i \in b.ids
    <3>1. i \in SentBy(s, a.try) => a.at = "text" /\ z[i] = s[i]
      BY <1>2, <1>4, <2>2 DEF Sound, ShownSoFar, Unsettled
    <3> QED  BY <1>3, <2>2, <3>1 DEF Sound, SecretsNoted
  <2> QED  BY <2>1, <2>2 DEF SecretsNoted
<1>8. VideosPlaced(b, z)
  <2>1. a.videos = {}  BY DEF Sound, VideosPlaced, OfVideos
  <2> QED  BY <2>1 DEF Sound, VideosPlaced, OfVideos
<1>9. Sound(b, z)  BY <1>2, <1>5, <1>6, <1>7, <1>8 DEF Sound
<1> QED  BY <1>9 DEF z

\* What is known of the attempt under way
LEMMA UnderWay ==
    ASSUME DeliveryInv
    PROVE  Sound(answer, shown) /\ answer \in Attempts /\ shown \in Seq(Messages)
           /\ (answer.at \in Unsettled \cup {"idle"} => answer.part = 1)
           /\ \A known \in BOOLEAN, videos \in SUBSET Videos :
                 /\ Message(videos, known) \in Messages
                 /\ Message(videos, known).videos = videos
                 /\ Message(videos, known).known = known
                 /\ Message(videos, known).secret = answer.secret
                 /\ Message(videos, known).try = answer.try
<1>1. Sound(answer, shown)  BY DEF DeliveryInv
<1>2. answer \in Attempts /\ shown \in Seq(Messages)  BY <1>1 DEF Sound
<1>3. answer.at \in Unsettled \cup {"idle"} => answer.part = 1
  BY <1>1 DEF Sound, PartsInOrder, Unsettled
<1> QED  BY <1>1, <1>2, <1>3 DEF Message, Messages, Attempts

LEMMA AttemptKeeps == DeliveryInv /\ Attempt => DeliveryInv'
<1> SUFFICES ASSUME DeliveryInv, Attempt  PROVE DeliveryInv'
  OBVIOUS
<1> DEFINE begun == [NotBegun EXCEPT !.try = answer.try + 1]
<1>1. /\ settled = "no" /\ answer.try < InboxAttempts
      /\ UNCHANGED <<shown, due, gone, settled, inGroup, faults>>
  BY DEF Attempt, Step
<1>2. begun \in Attempts /\ begun.try = answer.try + 1 /\ begun.part = 1 /\ begun.videos = {}
      /\ begun.links = {} /\ begun.uploads = {} /\ begun.ids = {}
      /\ ~begun.secret /\ ~begun.deleted
  <2>1. answer.try + 1 \in 0 .. InboxAttempts
    BY <1>1, UnderWay, DeliveryNumbers DEF Attempts
  <2>2. 1 \in 1 .. MaxParts /\ 1 \in 1 .. MaxParts + 1 /\ 0 \in 0 .. InboxAttempts
    BY DeliveryNumbers
  <2>3. NotBegun \in Attempts  BY <2>2 DEF NotBegun, Attempts, Points
  <2>4. begun \in Attempts  BY <2>1, <2>3 DEF Attempts
  <2>5. begun.try = answer.try + 1  BY <2>3 DEF Attempts
  <2> QED  BY <2>4, <2>5 DEF NotBegun
<1>3. \/ \E at \in {"text", "resolve", "route", "excuse"} : answer' = [begun EXCEPT !.at = at]
      \/ \E nested, only \in BOOLEAN :
            answer' = [begun EXCEPT !.at = "generate", !.secret = TRUE,
                          !.nested = nested, !.deleted = nested \/ only]
  BY DEF Attempt
<1> HIDE DEF begun
<1>4. ASSUME NEW at \in {"text", "resolve", "route", "excuse"},
             answer' = [begun EXCEPT !.at = at]
      PROVE  DeliveryInv'
  <2> DEFINE b == [begun EXCEPT !.at = at]
  <2>1. b \in Attempts /\ b.at = at /\ b.try = answer.try + 1 /\ b.part = 1 /\ b.videos = {}
        /\ b.links = {} /\ b.uploads = {} /\ b.ids = {} /\ ~b.secret /\ ~b.deleted
    BY <1>2 DEF Attempts, Points
  <2>2. answer' = b  BY <1>4
  <2> HIDE DEF b
  <2>3. Sound(b, shown)  BY <2>1, UnderWay, BegunIsSound
  <2> QED  BY <1>1, <2>2, <2>3, TurnKeeps
<1>5. ASSUME NEW nested \in BOOLEAN, NEW only \in BOOLEAN,
             answer' = [begun EXCEPT !.at = "generate", !.secret = TRUE,
                           !.nested = nested, !.deleted = nested \/ only]
      PROVE  DeliveryInv'
  <2> DEFINE b == [begun EXCEPT !.at = "generate", !.secret = TRUE,
                      !.nested = nested, !.deleted = nested \/ only]
  <2>1. b \in Attempts /\ b.at = "generate" /\ b.try = answer.try + 1 /\ b.part = 1
        /\ b.videos = {} /\ b.links = {} /\ b.uploads = {} /\ b.ids = {}
    BY <1>2 DEF Attempts, Points
  <2>2. answer' = b  BY <1>5
  <2> HIDE DEF b
  <2>3. Sound(b, shown)  BY <2>1, UnderWay, BegunIsSound
  <2> QED  BY <1>1, <2>2, <2>3, TurnKeeps
<1> QED  BY <1>3, <1>4, <1>5

\* Every way to go on that an attempt has which has sent nothing yet
LEMMA WaysOn ==
    ASSUME DeliveryInv, answer.at \in Unsettled \ {"stage", "card"}
    PROVE  /\ \A at \in {"text", "generate", "excuse", "longCard"} : Sound(After(at), shown)
           /\ \A b \in Texts : Sound(b, shown) /\ b.try = answer.try
           /\ Sound([After("originals") EXCEPT !.alt = TRUE], shown)
           /\ Sound([After("asText") EXCEPT !.alt = FALSE], shown)
           /\ [After("asText") EXCEPT !.alt = FALSE].try = answer.try
<1>1. ASSUME NEW at \in {"text", "generate", "excuse", "longCard"}
      PROVE  Sound(After(at), shown) /\ After(at).try = answer.try
  <2> DEFINE b == After(at)
  <2>1. b \in Attempts /\ b.at = at /\ b.try = answer.try /\ b.part = answer.part
        /\ b.ids = answer.ids /\ b.videos = answer.videos /\ b.links = answer.links
        /\ b.uploads = answer.uploads
    BY UnderWay DEF After, Attempts, Points
  <2> HIDE DEF b
  <2>2. Sound(b, shown)  BY <2>1, UnderWay, OnwardIsSound
  <2> QED  BY <2>1, <2>2 DEF b
<1>2. ASSUME NEW n \in 1 .. MaxParts
      PROVE  /\ Sound([After("text") EXCEPT !.parts = n], shown)
             /\ [After("text") EXCEPT !.parts = n].try = answer.try
  <2> DEFINE b == [After("text") EXCEPT !.parts = n]
  <2>1. b \in Attempts /\ b.at = "text" /\ b.try = answer.try /\ b.part = answer.part
        /\ b.ids = answer.ids /\ b.videos = answer.videos /\ b.links = answer.links
        /\ b.uploads = answer.uploads
    BY UnderWay DEF After, Attempts, Points
  <2> HIDE DEF b
  <2>2. Sound(b, shown)  BY <2>1, UnderWay, OnwardIsSound
  <2> QED  BY <2>1, <2>2 DEF b
<1>3. ASSUME NEW at \in {"originals", "asText"}, NEW alt \in BOOLEAN
      PROVE  /\ Sound([After(at) EXCEPT !.alt = alt], shown)
             /\ [After(at) EXCEPT !.alt = alt].try = answer.try
  <2> DEFINE b == [After(at) EXCEPT !.alt = alt]
  <2>1. b \in Attempts /\ b.at = at /\ b.try = answer.try /\ b.part = answer.part
        /\ b.ids = answer.ids /\ b.videos = answer.videos /\ b.links = answer.links
        /\ b.uploads = answer.uploads
    BY UnderWay DEF After, Attempts, Points
  <2> HIDE DEF b
  <2>2. Sound(b, shown)  BY <2>1, UnderWay, OnwardIsSound
  <2> QED  BY <2>1, <2>2 DEF b
<1>4. \A b \in Texts : Sound(b, shown) /\ b.try = answer.try
  BY <1>1, <1>2 DEF Texts
<1> QED  BY <1>1, <1>3, <1>4

LEMMA RouteKeeps == DeliveryInv /\ Route => DeliveryInv'
<1> SUFFICES ASSUME DeliveryInv, Route  PROVE DeliveryInv'
  OBVIOUS
<1>1. answer.at \in Unsettled \ {"stage", "card"} /\ settled = "no"
  BY DEF Route, Step, Unsettled
<1> QED  BY <1>1, WaysOn, TurnKeeps DEF Route

LEMMA AskModelKeeps == DeliveryInv /\ AskModel => DeliveryInv'
<1> SUFFICES ASSUME DeliveryInv, AskModel  PROVE DeliveryInv'
  OBVIOUS
<1>1. answer.at \in Unsettled \ {"stage", "card"} /\ settled = "no"
  BY DEF AskModel, Step, Unsettled
<1>2. Sound(answer', shown)  BY <1>1, WaysOn DEF AskModel
<1> QED  BY <1>1, <1>2, TurnKeeps DEF AskModel

LEMMA SendTextKeeps == DeliveryInv /\ SendText => DeliveryInv'
<1> SUFFICES ASSUME DeliveryInv, SendText  PROVE DeliveryInv'
  OBVIOUS
<1> DEFINE b == [answer EXCEPT !.at = IF answer.part = answer.parts THEN "sent" ELSE "text",
                               !.part = @ + 1, !.ids = Collected]
<1>1. answer.at = "text" /\ settled = "no" /\ OutboundCall({}, TRUE, b, After("failed"))
  BY DEF SendText, Step
<1>2. /\ answer \in Attempts /\ shown \in Seq(Messages) /\ answer.part <= answer.parts
      /\ answer.part \in 1 .. MaxParts + 1 /\ answer.parts \in 1 .. MaxParts
  BY <1>1, UnderWay DEF Attempts, Sound, PartsInOrder
<1>3. answer.part + 1 \in 1 .. MaxParts + 1
      /\ (answer.part # answer.parts => answer.part + 1 <= answer.parts)
  BY <1>2, DeliveryNumbers
<1>4. Collected \in SUBSET Nat /\ Collected = answer.ids \cup {Len(shown) + 1}
  BY <1>2 DEF Collected, NextId, Attempts
<1>5. /\ b \in Attempts /\ b.try = answer.try /\ b.ids = answer.ids \cup {Len(shown) + 1}
      /\ b.videos = answer.videos /\ b.links = answer.links /\ b.uploads = answer.uploads
      /\ b.at \in {"text", "sent"} /\ (b.at = "text" => b.part <= b.parts)
  BY <1>2, <1>3, <1>4 DEF Attempts, Points
<1> HIDE DEF b
<1>6. Sound(b, Append(shown, Message({}, TRUE)))
  BY <1>1, <1>5, UnderWay, AnsweredIsSound
<1>7. Sound(After("failed"), shown) /\ After("failed").try = answer.try
  BY UnderWay, FailedIsSound DEF After
<1> QED  BY <1>1, <1>6, <1>7, CallKeeps

\* A call after which the whole answer is there
LEMMA WholeAnswerKeeps ==
    ASSUME DeliveryInv, settled = "no", answer.at \in {"longCard", "originals", "asText"},
           NEW failed, Sound(failed, shown), failed.try = answer.try,
           OutboundCall({}, TRUE, [After("sent") EXCEPT !.ids = Collected], failed)
    PROVE  DeliveryInv'
<1> DEFINE b == [After("sent") EXCEPT !.ids = Collected]
<1>1. answer \in Attempts /\ shown \in Seq(Messages)  BY UnderWay
<1>2. Collected \in SUBSET Nat /\ Collected = answer.ids \cup {Len(shown) + 1}
  BY <1>1 DEF Collected, NextId, Attempts
<1>3. /\ b \in Attempts /\ b.try = answer.try /\ b.ids = answer.ids \cup {Len(shown) + 1}
      /\ b.videos = answer.videos /\ b.links = answer.links /\ b.uploads = answer.uploads
      /\ b.at = "sent"
  BY <1>1, <1>2 DEF Attempts, Points, After
<1> HIDE DEF b
<1>4. Sound(b, Append(shown, Message({}, TRUE)))
  BY <1>3, UnderWay, AnsweredIsSound
<1>5. DeliveryInv'  BY <1>4, CallKeeps DEF b
<1> QED  BY <1>5

LEMMA FormsKeep == DeliveryInv /\ (SendLongCard \/ SendOriginals \/ SendAsText) => DeliveryInv'
<1> SUFFICES ASSUME DeliveryInv, SendLongCard \/ SendOriginals \/ SendAsText  PROVE DeliveryInv'
  OBVIOUS
<1>1. settled = "no" /\ answer.at \in {"longCard", "originals", "asText"}
      /\ answer.at \in Unsettled \ {"stage", "card"}
  BY DEF SendLongCard, SendOriginals, SendAsText, Step, Unsettled
<1>2. Sound(After("failed"), shown) /\ After("failed").try = answer.try
  BY UnderWay, FailedIsSound DEF After
<1>3. CASE SendLongCard
  BY <1>1, <1>2, <1>3, WholeAnswerKeeps DEF SendLongCard
<1>4. CASE SendOriginals
  BY <1>1, <1>4, WaysOn, WholeAnswerKeeps DEF SendOriginals
<1>5. CASE SendAsText
  BY <1>1, <1>5, WaysOn, WholeAnswerKeeps DEF SendAsText
<1> QED  BY <1>3, <1>4, <1>5

LEMMA FinishKeeps == DeliveryInv /\ Finish => DeliveryInv'
<1> SUFFICES ASSUME DeliveryInv, Finish  PROVE DeliveryInv'
  OBVIOUS
<1>1. /\ answer.at = "sent" /\ settled' = "replied"
      /\ due' = IF answer.deleted THEN due \cup answer.ids ELSE due
      /\ UNCHANGED <<answer, shown, gone, inGroup, faults>>
  BY DEF Finish, Step, Settle
<1>2. /\ answer.ids \subseteq DOMAIN shown
      /\ \A i \in SentBy(shown, answer.try) : shown[i].secret => i \in answer.ids
  BY <1>1, UnderWay DEF Sound, SecretsNoted
<1>3. DisclosuresGo'
  BY <1>1, <1>2 DEF DisclosuresGo, Delivered, Taken, SentBy
<1> QED  BY <1>1, <1>2, <1>3 DEF DeliveryInv

LEMMA ExcuseKeeps == DeliveryInv /\ Excuse => DeliveryInv'
<1> SUFFICES ASSUME DeliveryInv, Excuse  PROVE DeliveryInv'
  OBVIOUS
<1> DEFINE b == After("excused")
<1>1. answer.at = "excuse" /\ settled = "no" /\ OutboundCall({}, TRUE, b, After("failed"))
  BY DEF Excuse, Step
<1>2. /\ b \in Attempts /\ b.try = answer.try /\ b.ids = answer.ids
      /\ b.videos = answer.videos /\ b.links = answer.links /\ b.uploads = answer.uploads
      /\ b.at = "excused" /\ b.part = 1
  BY <1>1, UnderWay DEF Attempts, Points, After, Unsettled
<1> HIDE DEF b
<1>3. Sound(b, Append(shown, Message({}, TRUE)))
  BY <1>1, <1>2, UnderWay, AnsweredIsSound
<1>4. Sound(After("failed"), shown) /\ After("failed").try = answer.try
  BY UnderWay, FailedIsSound DEF After
<1> QED  BY <1>1, <1>3, <1>4, CallKeeps

LEMMA ExcusedKeeps == DeliveryInv /\ Excused => DeliveryInv'
BY DEF Excused, Step, Settle, DeliveryInv, DisclosuresGo

LEMMA GiveBackKeeps == DeliveryInv /\ GiveBack => DeliveryInv'
<1> SUFFICES ASSUME DeliveryInv, GiveBack  PROVE DeliveryInv'
  OBVIOUS
<1> DEFINE b == [NotBegun EXCEPT !.try = answer.try]
<1>1. /\ settled = "no" /\ UNCHANGED <<shown, due, gone, inGroup, faults>>
      /\ \/ answer' = b /\ settled' = settled
         \/ settled' = "failed" /\ answer' = answer
  BY DEF GiveBack, Step, Settle
<1>2. Sound(b, shown)
  <2>1. /\ answer.try \in 0 .. InboxAttempts
        /\ \A i \in DOMAIN shown : shown[i].try <= answer.try
    BY UnderWay DEF Attempts, Sound, ShownSoFar
  <2>2. 1 \in 1 .. MaxParts /\ 1 \in 1 .. MaxParts + 1 /\ 0 \in 0 .. InboxAttempts
    BY DeliveryNumbers
  <2>3. NotBegun \in Attempts  BY <2>2 DEF NotBegun, Attempts, Points
  <2>4. b \in Attempts /\ b.try = answer.try  BY <2>1, <2>3 DEF Attempts
  <2>5. b.at = "idle" /\ b.part = 1 /\ b.videos = {} /\ b.links = {} /\ b.uploads = {}
        /\ b.ids = {}
    BY DEF NotBegun
  <2> HIDE DEF b
  <2>6. PartsInOrder(b) /\ ShownSoFar(b, shown) /\ SecretsNoted(b, shown)
        /\ VideosPlaced(b, shown)
    BY <2>1, <2>4, <2>5
    DEF PartsInOrder, ShownSoFar, SecretsNoted, VideosPlaced, Unsettled, OfVideos
  <2> QED  BY <2>4, <2>6, UnderWay DEF Sound
<1> HIDE DEF b
<1>3. CASE answer' = b /\ settled' = settled  BY <1>1, <1>2, <1>3, TurnKeeps
<1>4. CASE settled' = "failed" /\ answer' = answer
  BY <1>1, <1>4 DEF DeliveryInv, DisclosuresGo
<1> QED  BY <1>1, <1>3, <1>4

LEMMA RecallKeeps == \A i \in due : DeliveryInv /\ Recall(i) => DeliveryInv'
BY DEF Recall, DeliveryInv, DisclosuresGo, Delivered, Taken

\* A card is made, from a link or anew.
LEMMA StagedIsSound ==
    ASSUME NEW a, NEW s, Sound(a, s), NEW b \in Attempts, a.at \in {"resolve", "stage", "card"},
           b.at \in {"stage", "card"}, b.try = a.try, b.part = a.part, b.ids = a.ids,
           b.secret = a.secret, b.deleted = a.deleted, b.links \cup b.uploads = b.videos,
           b.links \cap b.uploads = {}
    PROVE  Sound(b, s)
<1>1. a.part = 1 /\ SentBy(s, b.try) = {} /\ ~a.secret /\ ~a.deleted
  BY DEF Sound, PartsInOrder, ShownSoFar, SecretsNoted, Unsettled
<1>2. PartsInOrder(b) /\ ShownSoFar(b, s)
  BY <1>1 DEF Sound, PartsInOrder, ShownSoFar
<1>3. SecretsNoted(b, s) /\ VideosPlaced(b, s)
  BY <1>1 DEF Sound, SecretsNoted, VideosPlaced, OfVideos
<1> QED  BY <1>2, <1>3 DEF Sound

\* A message is shown that may carry videos: each it carries was nowhere before
\* and is not to be uploaded any more.
LEMMA CarriedIsSound ==
    ASSUME NEW a, NEW s, Sound(a, s), NEW b \in Attempts, NEW m \in Messages,
           m.known, m.try = a.try, m.secret = a.secret, a.at \in {"card", "notice", "upload"},
           b.at \in {"notice", "upload", "sent"}, b.at = "sent" => b.uploads = {},
           b.at # "sent" => b.part = a.part,
           b.try = a.try, b.ids = a.ids, b.secret = a.secret, b.deleted = a.deleted,
           b.videos = a.videos, b.links = a.links, b.uploads \subseteq a.uploads,
           \A v \in a.videos :
              IF v \in m.videos THEN With(s, a.try, v) = {} /\ v \notin b.uploads
              ELSE IF v \in b.uploads THEN With(s, a.try, v) = {}
              ELSE \E i \in DOMAIN s : With(s, a.try, v) = {i}
    PROVE  Sound(b, Append(s, m))
<1> DEFINE z == Append(s, m)
<1>1. a \in Attempts /\ s \in Seq(Messages) /\ ~a.secret /\ ~a.deleted
  BY DEF Sound, SecretsNoted
<1>2. /\ z \in Seq(Messages) /\ DOMAIN z = DOMAIN s \cup {Len(s) + 1}
      /\ z[Len(s) + 1] = m /\ \A i \in DOMAIN s : z[i] = s[i]
  BY <1>1, Shown
<1>3. /\ SentBy(z, b.try) = SentBy(s, a.try) \cup {Len(s) + 1}
      /\ \A v : With(z, b.try, v) = IF v \in m.videos THEN With(s, a.try, v) \cup {Len(s) + 1}
                                    ELSE With(s, a.try, v)
  <2>1. SentBy(z, b.try) = SentBy(s, a.try) \cup {Len(s) + 1}  BY <1>1, ShownBy
  <2>2. ASSUME NEW v
        PROVE  With(z, b.try, v) = IF v \in m.videos THEN With(s, a.try, v) \cup {Len(s) + 1}
                                   ELSE With(s, a.try, v)
    <3>1. With(z, a.try, v) = IF v \in m.videos THEN With(s, a.try, v) \cup {Len(s) + 1}
                              ELSE With(s, a.try, v)
      <4> DEFINE t == a.try
      <4>1. m.known /\ m.try = t  OBVIOUS
      <4> HIDE DEF t
      <4>2. With(z, t, v) = IF v \in m.videos THEN With(s, t, v) \cup {Len(s) + 1}
                            ELSE With(s, t, v)
        BY <1>1, <4>1, ShownBy
      <4> QED  BY <4>2 DEF t
    <3> QED  BY <3>1
  <2> QED  BY <2>1, <2>2
<1>4. SentBy(s, a.try) \subseteq DOMAIN s  BY DEF SentBy
<1> HIDE DEF z
<1>5. PartsInOrder(b)  BY DEF Sound, PartsInOrder
<1>6. ShownSoFar(b, z)
  <2>1. a.try \in 0 .. InboxAttempts  BY <1>1 DEF Attempts
  <2>2. \A i \in DOMAIN z : z[i].try <= b.try
    BY <1>2, <2>1, DeliveryNumbers DEF Sound, ShownSoFar
  <2> QED  BY <1>3, <2>2 DEF ShownSoFar, Unsettled
<1>7. SecretsNoted(b, z)
  <2>1. b.ids \subseteq DOMAIN z  BY <1>2 DEF Sound, SecretsNoted
  <2>2. ASSUME NEW i \in SentBy(z, b.try), z[i].secret
        PROVE  i \in b.ids
    <3>1. i \in SentBy(s, a.try) /\ z[i] = s[i]  BY <1>1, <1>2, <1>3, <1>4, <2>2
    <3>2. a.at = "card" => SentBy(s, a.try) = {}  BY DEF Sound, ShownSoFar, Unsettled
    <3> QED  BY <2>2, <3>1, <3>2 DEF Sound, SecretsNoted
  <2> QED  BY <1>1, <2>1, <2>2 DEF SecretsNoted
<1>8. VideosPlaced(b, z)
  <2>1. ASSUME NEW v \in b.videos
        PROVE  IF v \in b.uploads THEN With(z, b.try, v) = {}
               ELSE \E i \in DOMAIN z : With(z, b.try, v) = {i}
    <3>1. CASE v \in m.videos
      <4>1. With(z, b.try, v) = {Len(s) + 1} /\ v \notin b.uploads  BY <1>3, <3>1
      <4> QED  BY <1>2, <4>1
    <3>2. CASE v \notin m.videos
      <4>1. With(z, b.try, v) = With(s, a.try, v)  BY <1>3, <3>2
      <4>2. IF v \in b.uploads THEN With(s, a.try, v) = {}
            ELSE \E i \in DOMAIN s : With(s, a.try, v) = {i}
        BY <3>2
      <4> QED  BY <1>2, <4>1, <4>2
    <3> QED  BY <3>1, <3>2
  <2> QED  BY <2>1 DEF Sound, VideosPlaced, OfVideos
<1>9. Sound(b, z)  BY <1>2, <1>5, <1>6, <1>7, <1>8 DEF Sound
<1> QED  BY <1>9 DEF z

LEMMA ResolveKeeps == DeliveryInv /\ Resolve => DeliveryInv'
<1> SUFFICES ASSUME DeliveryInv, Resolve  PROVE DeliveryInv'
  OBVIOUS
<1>1. /\ answer.at = "resolve" /\ settled = "no" /\ answer \in Attempts
      /\ answer.at \in Unsettled \ {"stage", "card"}
      /\ UNCHANGED <<shown, due, gone, inGroup, faults>>
  BY UnderWay DEF Resolve, Step, Unsettled
<1>2. CASE Settle("replied")
  <2>1. ~answer.deleted  BY <1>1, UnderWay DEF Sound, SecretsNoted
  <2> QED  BY <1>1, <1>2, <2>1 DEF DeliveryInv, DisclosuresGo, Settle
<1>3. CASE answer' = After("text") /\ UNCHANGED settled
  BY <1>1, <1>3, WaysOn, TurnKeeps
<1>4. ASSUME NEW videos \in SUBSET Videos, NEW shared \in SUBSET videos, settled' = settled,
             answer' = [After("stage") EXCEPT !.videos = videos, !.links = shared,
                              !.uploads = videos \ shared, !.alt = shared # {},
                              !.nodes = 1 + Cardinality(shared)]
      PROVE  DeliveryInv'
  <2> DEFINE b == [After("stage") EXCEPT !.videos = videos, !.links = shared,
                              !.uploads = videos \ shared, !.alt = shared # {},
                              !.nodes = 1 + Cardinality(shared)]
  <2>1. 1 + Cardinality(shared) \in Int
    <3>1. IsFiniteSet(shared)  BY DeliveryNumbers, FS_Subset
    <3>2. Cardinality(shared) \in Nat  BY <3>1, FS_CardinalityType
    <3> QED  BY <3>2
  <2>2. After("stage") \in Attempts /\ After("stage") = [answer EXCEPT !.at = "stage"]
    BY <1>1 DEF After, Attempts, Points
  <2>3. b \in Attempts  BY <2>1, <2>2 DEF Attempts
  <2>4. /\ b.at = "stage" /\ b.try = answer.try /\ b.part = answer.part /\ b.ids = answer.ids
        /\ b.secret = answer.secret /\ b.deleted = answer.deleted
        /\ b.videos = videos /\ b.links = shared /\ b.uploads = videos \ shared
    BY <1>1 DEF After, Attempts
  <2>5. answer' = b  BY <1>4
  <2> HIDE DEF b
  <2>6. Sound(b, shown)  BY <1>1, <2>3, <2>4, UnderWay, StagedIsSound
  <2> QED  BY <1>1, <1>4, <2>5, <2>6, TurnKeeps
<1> QED  BY <1>1, <1>2, <1>3, <1>4 DEF Resolve

\* What a card falls back to is sound.
LEMMA FallbackIsSound ==
    ASSUME DeliveryInv, answer.at \in {"stage", "card"}
    PROVE  Sound(Fallback, shown) /\ Fallback.try = answer.try
<1> DEFINE b == [After("stage") EXCEPT !.alt = FALSE, !.links = {}, !.nodes = 1,
                                !.uploads = answer.videos]
<1>1. After("stage") \in Attempts /\ answer \in Attempts
  BY UnderWay DEF After, Attempts, Points
<1>2. /\ b \in Attempts /\ b.at = "stage" /\ b.try = answer.try /\ b.part = answer.part
      /\ b.ids = answer.ids /\ b.secret = answer.secret /\ b.deleted = answer.deleted
      /\ b.videos = answer.videos /\ b.links = {} /\ b.uploads = answer.videos
  <2>1. answer.videos \in SUBSET Videos  BY <1>1 DEF Attempts
  <2> DEFINE c == After("stage")
  <2> HIDE DEF c
  <2>2. b \in Attempts
    <3>1. c \in Attempts  BY <1>1 DEF c
    <3>2. [c EXCEPT !.alt = FALSE, !.links = {}, !.nodes = 1, !.uploads = answer.videos]
             \in Attempts
      <4>1. [c EXCEPT !.alt = FALSE] \in Attempts  BY <3>1 DEF Attempts
      <4>2. \A x \in Attempts : [x EXCEPT !.links = {}] \in Attempts  BY DEF Attempts
      <4>3. \A x \in Attempts : [x EXCEPT !.nodes = 1] \in Attempts  BY DEF Attempts
      <4>4. \A x \in Attempts : [x EXCEPT !.uploads = answer.videos] \in Attempts
        BY <2>1 DEF Attempts
      <4> QED  BY <4>1, <4>2, <4>3, <4>4
    <3> QED  BY <3>2 DEF c
  <2>3. b.at = "stage" /\ b.try = answer.try /\ b.part = answer.part /\ b.ids = answer.ids
    BY <1>1 DEF After, Attempts
  <2>4. /\ b.secret = answer.secret /\ b.deleted = answer.deleted
        /\ b.videos = answer.videos /\ b.links = {} /\ b.uploads = answer.videos
    BY <1>1 DEF After, Attempts
  <2> QED  BY <2>2, <2>3, <2>4
<1> HIDE DEF b
<1>3. Sound(b, shown)  BY <1>2, UnderWay, StagedIsSound
<1>4. Sound(After("failed"), shown) /\ After("failed").try = answer.try
  BY UnderWay, FailedIsSound DEF After
<1>5. Fallback \in {b, After("failed")}  BY DEF Fallback, b
<1> QED  BY <1>2, <1>3, <1>4, <1>5

LEMMA StageKeeps == DeliveryInv /\ Stage => DeliveryInv'
<1> SUFFICES ASSUME DeliveryInv, Stage  PROVE DeliveryInv'
  OBVIOUS
<1> DEFINE goes == IF answer.nodes = 1 THEN "card" ELSE "stage"
           b == [answer EXCEPT !.at = goes, !.nodes = @ - 1]
<1>1. answer.at = "stage" /\ settled = "no" /\ OutboundCall({}, FALSE, b, Fallback)
  BY DEF Stage, Step
<1>2. /\ b \in Attempts /\ b.at \in {"stage", "card"} /\ b.try = answer.try
      /\ b.part = answer.part /\ b.ids = answer.ids /\ b.secret = answer.secret
      /\ b.deleted = answer.deleted /\ b.videos = answer.videos /\ b.links = answer.links
      /\ b.uploads = answer.uploads
  <2>1. goes \in {"stage", "card"}  OBVIOUS
  <2>2. answer \in Attempts /\ answer.nodes - 1 \in Int  BY UnderWay DEF Attempts
  <2> HIDE DEF goes
  <2>3. b \in Attempts  BY <2>1, <2>2 DEF Attempts, Points
  <2> QED  BY <2>1, <2>2, <2>3 DEF Attempts
<1> HIDE DEF b
<1>3. answer.links \cup answer.uploads = answer.videos
      /\ answer.links \cap answer.uploads = {}
  BY <1>1, UnderWay DEF Sound, VideosPlaced
<1>4. Sound(b, shown)  BY <1>1, <1>2, <1>3, UnderWay, StagedIsSound
<1> QED  BY <1>1, <1>4, FallbackIsSound, CallKeeps

LEMMA SendCardKeeps == DeliveryInv /\ SendCard => DeliveryInv'
<1> SUFFICES ASSUME DeliveryInv, SendCard  PROVE DeliveryInv'
  OBVIOUS
<1> DEFINE b == After(AfterCard(answer.uploads))
           m == Message(answer.links, TRUE)
<1>1. answer.at = "card" /\ settled = "no" /\ OutboundCall(answer.links, TRUE, b, Fallback)
  BY DEF SendCard, Step
<1>2. answer.links \in SUBSET Videos  BY UnderWay DEF Attempts
<1>3. /\ b \in Attempts /\ b.at \in {"notice", "sent"} /\ (b.at = "sent" => b.uploads = {})
      /\ b.try = answer.try /\ b.part = answer.part /\ b.ids = answer.ids
      /\ b.secret = answer.secret /\ b.deleted = answer.deleted
      /\ b.videos = answer.videos /\ b.links = answer.links /\ b.uploads = answer.uploads
  <2>1. AfterCard(answer.uploads) \in {"notice", "sent"}
        /\ (AfterCard(answer.uploads) = "sent" => answer.uploads = {})
    BY DEF AfterCard
  <2> QED  BY <2>1, UnderWay DEF After, Attempts, Points
<1> HIDE DEF b
<1>4. m \in Messages /\ m.known /\ m.try = answer.try /\ m.secret = answer.secret
      /\ m.videos = answer.links
  BY <1>2, UnderWay
<1> HIDE DEF m
<1>5. \A v \in answer.videos : /\ With(shown, answer.try, v) = {}
                               /\ v \in answer.links <=> v \notin answer.uploads
  BY <1>1, UnderWay DEF Sound, VideosPlaced, ShownSoFar, Unsettled, With
<1>6. Sound(b, Append(shown, m))
  BY <1>1, <1>3, <1>4, <1>5, UnderWay, CarriedIsSound
<1> QED  BY <1>1, <1>2, <1>6, FallbackIsSound, CallKeeps DEF m

LEMMA SendNoticeKeeps == DeliveryInv /\ SendNotice => DeliveryInv'
<1> SUFFICES ASSUME DeliveryInv, SendNotice  PROVE DeliveryInv'
  OBVIOUS
<1> DEFINE b == After("upload")
           m == Message({}, TRUE)
<1>1. answer.at = "notice" /\ settled = "no" /\ OutboundCall({}, TRUE, b, After("failed"))
  BY DEF SendNotice, Step
<1>2. /\ b \in Attempts /\ b.at = "upload"
      /\ b.try = answer.try /\ b.part = answer.part /\ b.ids = answer.ids
      /\ b.secret = answer.secret /\ b.deleted = answer.deleted
      /\ b.videos = answer.videos /\ b.links = answer.links /\ b.uploads = answer.uploads
  BY UnderWay DEF After, Attempts, Points
<1> HIDE DEF b
<1>3. m \in Messages /\ m.known /\ m.try = answer.try /\ m.secret = answer.secret
      /\ m.videos = {}
  BY UnderWay
<1> HIDE DEF m
<1>4. \A v \in answer.videos :
         IF v \in answer.uploads THEN With(shown, answer.try, v) = {}
         ELSE \E i \in DOMAIN shown : With(shown, answer.try, v) = {i}
  BY <1>1, UnderWay DEF Sound, VideosPlaced
<1>5. Sound(b, Append(shown, m))
  BY <1>1, <1>2, <1>3, <1>4, UnderWay, CarriedIsSound
<1>6. Sound(After("failed"), shown) /\ After("failed").try = answer.try
  BY UnderWay, FailedIsSound DEF After
<1> QED  BY <1>1, <1>5, <1>6, CallKeeps DEF m

LEMMA UploadKeeps == DeliveryInv /\ Upload => DeliveryInv'
<1> SUFFICES ASSUME DeliveryInv, Upload  PROVE DeliveryInv'
  OBVIOUS
<1>1. PICK v \in answer.uploads :
         OutboundCall({v}, TRUE,
             [After(AfterCard(answer.uploads \ {v})) EXCEPT !.uploads = @ \ {v}],
             After("failed"))
  BY DEF Upload
<1> DEFINE rest == answer.uploads \ {v}
           b == [After(AfterCard(rest)) EXCEPT !.uploads = @ \ {v}]
           m == Message({v}, TRUE)
<1>2. answer.at = "upload" /\ settled = "no"  BY DEF Upload, Step
<1>3. answer.uploads \in SUBSET Videos /\ v \in Videos  BY UnderWay DEF Attempts
<1>4. /\ b \in Attempts /\ b.at \in {"notice", "sent"} /\ (b.at = "sent" => b.uploads = {})
      /\ b.try = answer.try /\ b.part = answer.part /\ b.ids = answer.ids
      /\ b.secret = answer.secret /\ b.deleted = answer.deleted
      /\ b.videos = answer.videos /\ b.links = answer.links /\ b.uploads = rest
  <2>1. AfterCard(rest) \in {"notice", "sent"} /\ (AfterCard(rest) = "sent" => rest = {})
    BY DEF AfterCard
  <2> QED  BY <1>3, <2>1, UnderWay DEF After, Attempts, Points
<1> HIDE DEF b
<1>5. m \in Messages /\ m.known /\ m.try = answer.try /\ m.secret = answer.secret
      /\ m.videos = {v}
  BY <1>3, UnderWay
<1> HIDE DEF m
<1>6. \A w \in answer.videos :
         IF w \in {v} THEN With(shown, answer.try, w) = {} /\ w \notin rest
         ELSE IF w \in rest THEN With(shown, answer.try, w) = {}
         ELSE \E i \in DOMAIN shown : With(shown, answer.try, w) = {i}
  BY <1>2, UnderWay DEF Sound, VideosPlaced
<1>7. Sound(b, Append(shown, m))
  BY <1>2, <1>4, <1>5, <1>6, UnderWay, CarriedIsSound
<1>8. Sound(After("failed"), shown) /\ After("failed").try = answer.try
  BY UnderWay, FailedIsSound DEF After
<1> QED  BY <1>1, <1>2, <1>3, <1>7, <1>8, CallKeeps DEF b, m

-----------------------------------------------------------------------------
(* The delivery: theorems. *)

LEMMA DeliveryBegins == DeliveryInit => DeliveryInv
<1> SUFFICES ASSUME DeliveryInit  PROVE DeliveryInv
  OBVIOUS
<1>1. /\ answer = NotBegun /\ shown = <<>> /\ due = {} /\ gone = {}
      /\ settled = "no" /\ inGroup \in BOOLEAN /\ faults = 0
  BY DEF DeliveryInit
<1>2. 1 \in 1 .. MaxParts /\ 1 \in 1 .. MaxParts + 1 /\ 0 \in 0 .. InboxAttempts
      /\ 0 \in 0 .. MaxFaults
  BY DeliveryNumbers
<1>3. answer \in Attempts /\ answer.at = "idle" /\ answer.part = 1 /\ answer.videos = {}
      /\ answer.links = {} /\ answer.uploads = {} /\ answer.ids = {}
  BY <1>1, <1>2 DEF NotBegun, Attempts, Points
<1>4. shown \in Seq(Messages) /\ DOMAIN shown = {}  BY <1>1
<1>5. Sound(answer, shown)
  BY <1>3, <1>4 DEF Sound, PartsInOrder, ShownSoFar, SecretsNoted, VideosPlaced, Unsettled,
                    OfVideos
<1> QED  BY <1>1, <1>2, <1>5 DEF DeliveryInv, DisclosuresGo

LEMMA DeliveryStep == DeliveryInv /\ [DeliveryNext]_deliveryVars => DeliveryInv'
<1> SUFFICES ASSUME DeliveryInv, [DeliveryNext]_deliveryVars  PROVE DeliveryInv'
  OBVIOUS
<1>1. CASE UNCHANGED deliveryVars
  BY <1>1 DEF deliveryVars, DeliveryInv, DisclosuresGo, Delivered, Taken
<1>2. CASE DeliveryNext
  BY <1>2, AttemptKeeps, RouteKeeps, AskModelKeeps, SendTextKeeps, FormsKeep, FinishKeeps,
     ResolveKeeps, StageKeeps, SendCardKeeps, SendNoticeKeeps, UploadKeeps, ExcuseKeeps,
     ExcusedKeeps, GiveBackKeeps, RecallKeeps
  DEF DeliveryNext
<1> QED  BY <1>1, <1>2

\* The invariant of the delivery: what an attempt has shown so far, at each
\* point of replyTo, sendForwardPluginResponse and replyAndRecord.
THEOREM DeliveryIsSound == DeliverySpec => []DeliveryInv
<1> QED  BY DeliveryBegins, DeliveryStep, PTL DEF DeliverySpec

\* What is recorded as answered has been shown, with each of its videos once,
\* whichever cards and fallbacks failed on the way.
THEOREM DeliveryIsSafe == DeliverySpec => []DeliverySafe
<1>1. ASSUME DeliveryInv  PROVE DeliverySafe
  <2>1. DeliveryTypeOK
    BY <1>1 DEF DeliveryInv, Sound, Attempts, SecretsNoted, VideosPlaced, DeliveryTypeOK, Taken
  <2>2. Delivered = SentBy(shown, answer.try)
        /\ \A v : {i \in Delivered : v \in shown[i].videos} = With(shown, answer.try, v)
    BY DEF Delivered, Taken, SentBy, With
  <2>3. AnsweredMeansShown
    BY <1>1, <2>2 DEF DeliveryInv, Sound, ShownSoFar, AnsweredMeansShown
  <2>4. VideosArrive
    <3> SUFFICES ASSUME settled = "replied", NEW v \in answer.videos
                 PROVE  Cardinality({i \in Delivered : v \in shown[i].videos}) = 1
      BY DEF VideosArrive
    <3>1. answer.at = "sent"
      BY <1>1 DEF DeliveryInv, Sound, VideosPlaced, OfVideos
    <3>2. PICK i \in DOMAIN shown : With(shown, answer.try, v) = {i}
      BY <1>1, <3>1 DEF DeliveryInv, Sound, VideosPlaced
    <3> QED  BY <2>2, <3>2, FS_Singleton
  <2> QED  BY <2>1, <2>3, <2>4 DEF DeliverySafe
<1> QED  BY <1>1, DeliveryIsSound, PTL

\* Every message of an answer about recalled messages that is known to have
\* been sent is recalled in its turn, of all the forms the answer took.
THEOREM DisclosuresAreRecalled == DeliverySpec => []DisclosuresGo
<1>1. DeliveryInv => DisclosuresGo  BY DEF DeliveryInv
<1> QED  BY <1>1, DeliveryIsSound, PTL

-----------------------------------------------------------------------------
(* The tasks: the invariant. *)

Holding == {"got", "wait", "call"}
Pools ==
    [kind : {"none", "pages", "chunks"}, next : 1 .. PageCount + 1, open : BOOLEAN,
     failed : BOOLEAN, done : SUBSET Pages,
     at : [Workers -> [pc : Holding \cup {"out", "take"}, page : 0 .. PageCount]]]
Ends == {"none", "withdrawn", "stopped", "answered", "unsent", "silent", "told", "crashed"}
TaskRecords ==
    [pc : Working \cup {"none", "ack", "queued", "ended"}, key : Keys \cup {"none"},
     bound : BOOLEAN, root : BOOLEAN, told : BOOLEAN, how : Ends]

\* A pool p of which the context has ended or not: unless it failed or has to
\* stop, what was handed out is done or with a worker, and workers leave only
\* when everything was handed out.
PoolSound(p, ended) ==
    /\ p \in Pools
    /\ \A w \in Workers : p.at[w].pc \in Holding => p.at[w].page \in Pages
    /\ p.failed => p.kind = "pages"
    /\ p.kind = "none" => ~p.open /\ \A w \in Workers : p.at[w].pc = "out"
    /\ p.kind # "none" /\ ~p.failed /\ ~ended =>
          /\ p.open \/ p.next = PageCount + 1
          /\ \A w \in Workers : p.at[w].pc = "out" => ~p.open
          /\ \A q \in Pages : q < p.next =>
                q \in p.done \/ \E w \in Workers : p.at[w].pc \in Holding /\ p.at[w].page = q
PoolsSound == \A t \in Tasks : PoolSound(pool[t], over[t])

TasksTyped ==
    /\ pool \in [Tasks -> Pools] /\ over \in [Tasks -> BOOLEAN] /\ calling \subseteq Tasks
    /\ cache \in [Documents -> {{}, Pages}] /\ task \in [Tasks -> TaskRecords]
    /\ on \in BOOLEAN

\* A task has the pool of the point where it is, and a document where it needs
\* one; it was announced after its reservation.
InPlace(x, p) ==
    /\ x.pc = "pages" => p.kind = "pages"
    /\ x.pc = "chunks" => p.kind \in {"none", "chunks"}
    /\ x.pc \notin {"pages", "chunks"} => p.kind = "none"
    /\ x.pc \in {"answer", "asking"} => p.done = Pages
    /\ x.pc # "none" => x.key \in Keys
    /\ x.pc \in {"begin", "pages", "chunks"} => DocumentOf[x.key] \in Documents
    /\ x.pc = "ack" => ~x.told
    /\ x.pc = "ended" /\ x.told /\ ~x.root =>
          x.how \in {"answered", "told", "unsent", "crashed"}
TasksInPlace == \A t \in Tasks : InPlace(task[t], pool[t])

TasksInv == TasksTyped /\ PoolsSound /\ TasksInPlace /\ OneTaskPerKey

-----------------------------------------------------------------------------
(* The tasks: what happens in a pool. *)

LEMMA PoolNumbers ==
    /\ PageCount \in Nat /\ PageCount > 0 /\ \E w \in Workers : TRUE
    /\ {} # Pages /\ Pages = 1 .. PageCount
<1>1. PageCount \in Nat /\ PageCount > 0 /\ Cardinality(Workers) # 0
      /\ Cardinality(Workers) \in 1 .. PageCount
  BY PoolConstants
<1>2. Workers # {}  BY <1>1, FS_EmptySet
<1>3. 1 \in Pages  BY <1>1 DEF Pages
<1> QED  BY <1>1, <1>2, <1>3 DEF Pages

\* A pool that has not begun, and one that has just begun, are sound.
LEMMA NewPoolsAreSound ==
    ASSUME NEW ended
    PROVE  /\ \A done \in SUBSET Pages : /\ PoolSound([NoPool EXCEPT !.done = done], ended)
                                         /\ [NoPool EXCEPT !.done = done].kind = "none"
                                         /\ [NoPool EXCEPT !.done = done].done = done
           /\ PoolSound(NoPool, ended) /\ NoPool.kind = "none" /\ NoPool \in Pools
           /\ \A kind \in {"pages", "chunks"} : /\ PoolSound(NewPool(kind), ended)
                                                /\ NewPool(kind).kind = kind
<1>1. 1 \in 1 .. PageCount + 1 /\ 0 \in 0 .. PageCount  BY PoolNumbers
<1>2. NoPool \in Pools  BY <1>1 DEF NoPool, Pools
<1>3. NoPool.kind = "none" /\ ~NoPool.open /\ NoPool.next = 1 /\ ~NoPool.failed
      /\ \A w \in Workers : NoPool.at[w].pc = "out"
  BY DEF NoPool
<1>4. PoolSound(NoPool, ended)  BY <1>2, <1>3 DEF PoolSound, Holding
<1>5. ASSUME NEW done \in SUBSET Pages
      PROVE  /\ PoolSound([NoPool EXCEPT !.done = done], ended)
             /\ [NoPool EXCEPT !.done = done].kind = "none"
             /\ [NoPool EXCEPT !.done = done].done = done
  <2> DEFINE b == [NoPool EXCEPT !.done = done]
  <2>1. b \in Pools /\ b.kind = NoPool.kind /\ b.open = NoPool.open /\ b.at = NoPool.at
        /\ b.done = done /\ b.failed = NoPool.failed
    BY <1>2 DEF Pools
  <2> HIDE DEF b
  <2>2. PoolSound(b, ended)  BY <1>3, <2>1 DEF PoolSound, Holding
  <2> QED  BY <1>3, <2>1, <2>2 DEF b
<1>6. ASSUME NEW kind \in {"pages", "chunks"}
      PROVE  PoolSound(NewPool(kind), ended) /\ NewPool(kind).kind = kind
  <2> DEFINE start == [w \in Workers |-> [pc |-> "take", page |-> 0]]
             b == [NoPool EXCEPT !.kind = kind, !.open = TRUE, !.at = start]
  <2>1. start \in [Workers -> [pc : Holding \cup {"out", "take"}, page : 0 .. PageCount]]
        /\ \A w \in Workers : start[w].pc = "take"
    BY <1>1
  <2> HIDE DEF start
  <2>2. b \in Pools /\ b.kind = kind /\ b.open = TRUE /\ b.next = NoPool.next /\ b.at = start
        /\ b.failed = NoPool.failed
    BY <1>2, <2>1 DEF Pools
  <2>3. b = NewPool(kind)  BY DEF NewPool, start
  <2> HIDE DEF b
  <2>4. PoolSound(b, ended)
    <3>1. \A q \in Pages : ~(q < b.next)  BY <1>3, <2>2, PoolNumbers
    <3> QED  BY <1>3, <2>1, <2>2, <3>1 DEF PoolSound, Holding
  <2> QED  BY <2>2, <2>3, <2>4
<1> QED  BY <1>2, <1>3, <1>4, <1>5, <1>6

\* The end of a context excuses more.
LEMMA EndedIsSound ==
    ASSUME NEW p, NEW ended, PoolSound(p, ended), NEW later, ended => later
    PROVE  PoolSound(p, later)
BY DEF PoolSound

\* A worker moves, and hands over a page only when it is done, or the pool
\* fails or ends.
LEMMA WorkerMoves ==
    ASSUME NEW p, NEW ended, PoolSound(p, ended), p.kind # "none", NEW b \in Pools,
           NEW w \in Workers, b.kind = p.kind, b.next = p.next, b.open = p.open,
           \A v \in Workers \ {w} : b.at[v] = p.at[v],
           p.done \subseteq b.done, p.failed => b.failed,
           b.failed => p.failed \/ p.kind = "pages",
           b.at[w].pc \in Holding => b.at[w].page \in Pages,
           ~b.failed /\ ~ended =>
              /\ b.at[w].pc = "out" => ~p.open
              /\ p.at[w].pc \in Holding =>
                    \/ p.at[w].page \in b.done
                    \/ b.at[w].pc \in Holding /\ b.at[w].page = p.at[w].page
    PROVE  PoolSound(b, ended)
<1>1. \A v \in Workers : b.at[v].pc \in Holding => b.at[v].page \in Pages
  BY DEF PoolSound
<1>2. ASSUME ~b.failed, ~ended
      PROVE  /\ b.open \/ b.next = PageCount + 1
             /\ \A v \in Workers : b.at[v].pc = "out" => ~b.open
             /\ \A q \in Pages : q < b.next =>
                   q \in b.done \/ \E v \in Workers : b.at[v].pc \in Holding /\ b.at[v].page = q
  <2>1. /\ p.open \/ p.next = PageCount + 1
        /\ \A v \in Workers : p.at[v].pc = "out" => ~p.open
        /\ \A q \in Pages : q < p.next =>
              q \in p.done \/ \E v \in Workers : p.at[v].pc \in Holding /\ p.at[v].page = q
    BY <1>2 DEF PoolSound
  <2>2. \A v \in Workers : b.at[v].pc = "out" => ~b.open  BY <1>2, <2>1
  <2>3. ASSUME NEW q \in Pages, q < b.next, q \notin b.done
        PROVE  \E v \in Workers : b.at[v].pc \in Holding /\ b.at[v].page = q
    <3>1. PICK v \in Workers : p.at[v].pc \in Holding /\ p.at[v].page = q
      BY <2>1, <2>3
    <3>2. b.at[v].pc \in Holding /\ b.at[v].page = q  BY <1>2, <2>3, <3>1
    <3> QED  BY <3>2
  <2> QED  BY <2>1, <2>2, <2>3
<1> QED  BY <1>1, <1>2 DEF PoolSound

\* jobs <- pageIndex
LEMMA FeedIsSound ==
    ASSUME NEW p, NEW ended, PoolSound(p, ended), p.kind # "none", NEW w \in Workers,
           p.open, p.next <= PageCount, p.at[w].pc = "take", NEW b \in Pools,
           b.kind = p.kind, b.next = p.next + 1, b.open = p.open, b.failed = p.failed,
           b.done = p.done, \A v \in Workers \ {w} : b.at[v] = p.at[v],
           b.at[w].pc = "got", b.at[w].page = p.next
    PROVE  PoolSound(b, ended)
<1>1. p.next \in Pages /\ p.next \in Nat
  BY PoolNumbers DEF PoolSound, Pools
<1>2. \A v \in Workers : b.at[v].pc \in Holding => b.at[v].page \in Pages
  BY <1>1 DEF PoolSound
<1>3. ASSUME ~b.failed, ~ended
      PROVE  /\ \A v \in Workers : b.at[v].pc # "out"
             /\ \A q \in Pages : q < b.next =>
                   q \in b.done \/ \E v \in Workers : b.at[v].pc \in Holding /\ b.at[v].page = q
  <2>1. /\ \A v \in Workers : p.at[v].pc # "out"
        /\ \A q \in Pages : q < p.next =>
              q \in p.done \/ \E v \in Workers : p.at[v].pc \in Holding /\ p.at[v].page = q
    BY <1>3 DEF PoolSound
  <2>2. ASSUME NEW q \in Pages, q < b.next, q \notin b.done
        PROVE  \E v \in Workers : b.at[v].pc \in Holding /\ b.at[v].page = q
    <3>1. q < p.next \/ q = p.next  BY <1>1, <2>2, PoolNumbers
    <3>2. CASE q = p.next  BY <3>2 DEF Holding
    <3>3. CASE q < p.next
      <4>1. PICK v \in Workers : p.at[v].pc \in Holding /\ p.at[v].page = q
        BY <2>1, <2>2, <3>3
      <4>2. v # w  BY <4>1 DEF Holding
      <4> QED  BY <4>1, <4>2
    <3> QED  BY <3>1, <3>2, <3>3
  <2> QED  BY <2>1, <2>2
<1> QED  BY <1>2, <1>3 DEF PoolSound

\* close(jobs)
LEMMA CloseIsSound ==
    ASSUME NEW p, NEW ended, PoolSound(p, ended), NEW b \in Pools,
           p.next > PageCount \/ ended \/ p.failed,
           b.kind = p.kind, b.next = p.next, ~b.open, b.failed = p.failed,
           b.done = p.done, b.at = p.at
    PROVE  PoolSound(b, ended)
<1>1. ~b.failed /\ ~ended => b.next = PageCount + 1
  BY PoolNumbers DEF PoolSound, Pools
<1> QED  BY <1>1 DEF PoolSound

\* The pool of task t goes on, and stays sound.
PoolGoesOn(t) ==
    \E b \in Pools : /\ pool' = [pool EXCEPT ![t] = b] /\ PoolSound(b, over[t])
                     /\ b.kind = pool[t].kind /\ pool[t].kind # "none"

\* A pool at work
LEMMA PoolAtWork ==
    ASSUME TasksTyped, PoolsSound, NEW t \in Tasks, NEW w \in Workers
    PROVE  /\ pool[t] \in Pools /\ PoolSound(pool[t], over[t]) /\ over[t] \in BOOLEAN
           /\ pool[t].at[w].pc # "out" => pool[t].kind # "none"
           /\ pool[t].open => pool[t].kind # "none"
           /\ pool[t].at[w].pc \in Holding => pool[t].at[w].page \in Pages
BY DEF TasksTyped, PoolsSound, PoolSound

\* What a move of a worker leaves as it was
LEMMA MoveGives ==
    ASSUME TasksTyped, NEW t \in Tasks, NEW w \in Workers,
           NEW pc \in Holding \cup {"out", "take"},
           Move(t, w, pc)
    PROVE  \E b \in Pools :
              /\ pool' = [pool EXCEPT ![t] = b] /\ b.kind = pool[t].kind
              /\ b.next = pool[t].next /\ b.open = pool[t].open
              /\ b.failed = pool[t].failed /\ b.done = pool[t].done
              /\ b.at[w].pc = pc /\ b.at[w].page = pool[t].at[w].page
              /\ \A v \in Workers \ {w} : b.at[v] = pool[t].at[v]
<1> DEFINE p == pool[t]
           places == [p.at EXCEPT ![w].pc = pc]
           b == [p EXCEPT !.at = places]
<1>1. p \in Pools  BY DEF TasksTyped
<1>2. p.at \in [Workers -> [pc : Holding \cup {"out", "take"}, page : 0 .. PageCount]]
  BY <1>1 DEF Pools
<1>3. /\ places \in [Workers -> [pc : Holding \cup {"out", "take"}, page : 0 .. PageCount]]
      /\ places[w].pc = pc /\ places[w].page = p.at[w].page
      /\ \A v \in Workers \ {w} : places[v] = p.at[v]
  BY <1>2
<1>4. pool' = [pool EXCEPT ![t] = b]  BY DEF Move
<1> HIDE DEF places, p
<1>5. b \in Pools /\ b.at = places  BY <1>1, <1>3 DEF Pools
<1>6. /\ b.kind = p.kind /\ b.next = p.next /\ b.open = p.open
      /\ b.failed = p.failed /\ b.done = p.done
  BY <1>1 DEF Pools
<1> HIDE DEF b
<1> QED  BY <1>3, <1>4, <1>5, <1>6 DEF p

LEMMA LeaveGoesOn ==
    ASSUME TasksTyped, PoolsSound, NEW t \in Tasks, NEW w \in Workers, Leave(t, w)
    PROVE  PoolGoesOn(t)
<1>1. pool[t].at[w].pc = "take" /\ ~pool[t].open /\ Move(t, w, "out")
  BY DEF Leave, At
<1>2. PICK b \in Pools :
              /\ pool' = [pool EXCEPT ![t] = b] /\ b.kind = pool[t].kind
              /\ b.next = pool[t].next /\ b.open = pool[t].open
              /\ b.failed = pool[t].failed /\ b.done = pool[t].done
              /\ b.at[w].pc = "out" /\ b.at[w].page = pool[t].at[w].page
              /\ \A v \in Workers \ {w} : b.at[v] = pool[t].at[v]
  BY <1>1, MoveGives
<1>3. "out" \notin Holding /\ "take" \notin Holding  BY DEF Holding
<1>4. PoolSound(b, over[t])  BY <1>1, <1>2, <1>3, PoolAtWork, WorkerMoves
<1> QED  BY <1>1, <1>2, <1>4, PoolAtWork DEF PoolGoesOn

\* A worker that holds a page goes on with it, or leaves a pool that is over.
LEMMA HolderMoves ==
    ASSUME TasksTyped, PoolsSound, NEW t \in Tasks, NEW w \in Workers,
           pool[t].at[w].pc \in Holding, NEW pc \in Holding \cup {"out"}, Move(t, w, pc),
           pc = "out" => over[t] \/ pool[t].failed
    PROVE  PoolGoesOn(t)
<1>1. PICK b \in Pools :
              /\ pool' = [pool EXCEPT ![t] = b] /\ b.kind = pool[t].kind
              /\ b.next = pool[t].next /\ b.open = pool[t].open
              /\ b.failed = pool[t].failed /\ b.done = pool[t].done
              /\ b.at[w].pc = pc /\ b.at[w].page = pool[t].at[w].page
              /\ \A v \in Workers \ {w} : b.at[v] = pool[t].at[v]
  BY MoveGives
<1>2. "out" \notin Holding  BY DEF Holding
<1>3. PoolSound(b, over[t])  BY <1>1, <1>2, PoolAtWork, WorkerMoves
<1> QED  BY <1>1, <1>2, <1>3, PoolAtWork DEF PoolGoesOn

LEMMA KeptGoesOn ==
    ASSUME TasksTyped, PoolsSound, NEW t \in Tasks, NEW w \in Workers,
           pool[t].at[w].pc \in Holding, Kept(t, w)
    PROVE  PoolGoesOn(t)
<1> DEFINE p == pool[t]
           places == [p.at EXCEPT ![w].pc = "take"]
           more == p.done \cup {p.at[w].page}
           b == [p EXCEPT !.done = more, !.at = places]
<1>1. p \in Pools /\ p.at[w].page \in Pages  BY PoolAtWork
<1>2. p.at \in [Workers -> [pc : Holding \cup {"out", "take"}, page : 0 .. PageCount]]
  BY <1>1 DEF Pools
<1>3. /\ places \in [Workers -> [pc : Holding \cup {"out", "take"}, page : 0 .. PageCount]]
      /\ places[w].pc = "take" /\ \A v \in Workers \ {w} : places[v] = p.at[v]
  BY <1>2
<1>4. pool' = [pool EXCEPT ![t] = b]  BY DEF Kept
<1>5. more \in SUBSET Pages /\ p.done \subseteq more /\ p.at[w].page \in more
  BY <1>1 DEF Pools
<1> HIDE DEF places, more
<1>6. b \in Pools /\ b.at = places /\ b.done = more  BY <1>1, <1>3, <1>5 DEF Pools
<1>7. b.kind = p.kind /\ b.next = p.next /\ b.open = p.open /\ b.failed = p.failed
  BY <1>1 DEF Pools
<1> HIDE DEF b
<1>8. "out" \notin Holding /\ "take" \notin Holding  BY DEF Holding
<1>9. PoolSound(b, over[t]) /\ p.kind # "none"
  BY <1>3, <1>5, <1>6, <1>7, <1>8, PoolAtWork, WorkerMoves
<1> QED  BY <1>4, <1>6, <1>7, <1>9 DEF PoolGoesOn

LEMMA FailsGoesOn ==
    ASSUME TasksTyped, PoolsSound, NEW t \in Tasks, NEW w \in Workers,
           pool[t].at[w].pc \in Holding, Fails(t, w)
    PROVE  PoolGoesOn(t)
<1> DEFINE p == pool[t]
           places == [p.at EXCEPT ![w].pc = "out"]
           b == [p EXCEPT !.failed = TRUE, !.at = places]
<1>1. CASE /\ pool[t].kind = "pages"
           /\ pool' = [pool EXCEPT ![t].failed = TRUE, ![t].at[w].pc = "out"]
  <2>1. p \in Pools  BY PoolAtWork
  <2>2. p.at \in [Workers -> [pc : Holding \cup {"out", "take"}, page : 0 .. PageCount]]
    BY <2>1 DEF Pools
  <2>3. /\ places \in [Workers -> [pc : Holding \cup {"out", "take"}, page : 0 .. PageCount]]
        /\ places[w].pc = "out" /\ \A v \in Workers \ {w} : places[v] = p.at[v]
    BY <2>2
  <2>4. pool' = [pool EXCEPT ![t] = b]  BY <1>1
  <2> HIDE DEF places
  <2>5. b \in Pools /\ b.at = places /\ b.failed = TRUE  BY <2>1, <2>3 DEF Pools
  <2>6. b.kind = p.kind /\ b.next = p.next /\ b.open = p.open /\ b.done = p.done
    BY <2>1 DEF Pools
  <2> HIDE DEF b
  <2>7. "out" \notin Holding  BY DEF Holding
  <2>8. PoolSound(b, over[t]) /\ p.kind # "none"
    BY <1>1, <2>3, <2>5, <2>6, <2>7, PoolAtWork, WorkerMoves
  <2> QED  BY <2>4, <2>5, <2>6, <2>8 DEF PoolGoesOn
<1>2. CASE over[t] /\ Move(t, w, "out")  BY <1>2, HolderMoves
<1>3. CASE Kept(t, w)  BY <1>3, KeptGoesOn
<1> QED  BY <1>1, <1>2, <1>3 DEF Fails

LEMMA FeedGoesOn ==
    ASSUME TasksTyped, PoolsSound, NEW t \in Tasks, NEW w \in Workers, Feed(t, w)
    PROVE  PoolGoesOn(t)
<1> DEFINE p == pool[t]
           places == [p.at EXCEPT ![w] = [pc |-> "got", page |-> p.next]]
           after == p.next + 1
           b == [p EXCEPT !.next = after, !.at = places]
<1>1. p \in Pools /\ p.open /\ p.next <= PageCount /\ p.at[w].pc = "take"
  BY PoolAtWork DEF Feed, At
<1>2. /\ p.at \in [Workers -> [pc : Holding \cup {"out", "take"}, page : 0 .. PageCount]]
      /\ p.next \in 0 .. PageCount /\ after \in 1 .. PageCount + 1
  BY <1>1, PoolNumbers DEF Pools
<1>3. /\ places \in [Workers -> [pc : Holding \cup {"out", "take"}, page : 0 .. PageCount]]
      /\ places[w].pc = "got" /\ places[w].page = p.next
      /\ \A v \in Workers \ {w} : places[v] = p.at[v]
  BY <1>2 DEF Holding
<1>4. pool' = [pool EXCEPT ![t] = b]  BY DEF Feed
<1> HIDE DEF places, after
<1>5. b \in Pools /\ b.at = places /\ b.next = after  BY <1>1, <1>2, <1>3 DEF Pools
<1>6. b.kind = p.kind /\ b.failed = p.failed /\ b.open = p.open /\ b.done = p.done
  BY <1>1 DEF Pools
<1> HIDE DEF b
<1>7. p.kind # "none" /\ PoolSound(p, over[t])  BY <1>1, PoolAtWork
<1>8. b.next = p.next + 1 /\ b.at[w].pc = "got" /\ b.at[w].page = p.next
      /\ \A v \in Workers \ {w} : b.at[v] = p.at[v]
  BY <1>3, <1>5 DEF after
<1> HIDE DEF p
<1>9. PoolSound(b, over[t])
  BY <1>1, <1>5, <1>6, <1>7, <1>8, FeedIsSound
<1> USE DEF p
<1> QED  BY <1>4, <1>5, <1>6, <1>7, <1>9 DEF PoolGoesOn

LEMMA CloseGoesOn ==
    ASSUME TasksTyped, PoolsSound, NEW t \in Tasks, CloseJobs(t)
    PROVE  PoolGoesOn(t)
<1> DEFINE p == pool[t]
           b == [p EXCEPT !.open = FALSE]
<1>1. p \in Pools /\ p.open /\ (p.next > PageCount \/ over[t] \/ p.failed)
      /\ PoolSound(p, over[t]) /\ p.kind # "none"
  BY DEF CloseJobs, WorkOver, TasksTyped, PoolsSound, PoolSound
<1>2. pool' = [pool EXCEPT ![t] = b]  BY DEF CloseJobs
<1>3. b \in Pools /\ b.kind = p.kind /\ b.next = p.next /\ ~b.open /\ b.failed = p.failed
      /\ b.done = p.done /\ b.at = p.at
  BY <1>1 DEF Pools
<1> HIDE DEF b
<1>4. PoolSound(b, over[t])  BY <1>1, <1>3, CloseIsSound
<1> QED  BY <1>1, <1>2, <1>3, <1>4 DEF PoolGoesOn

LEMMA PoolStepGoesOn ==
    ASSUME TasksTyped, PoolsSound, NEW t \in Tasks,
           FeederStep(t) \/ \E w \in Workers : WorkerStep(t, w)
    PROVE  PoolGoesOn(t)
<1>1. ASSUME NEW w \in Workers, WorkerStep(t, w)  PROVE PoolGoesOn(t)
  <2>1. CASE Feed(t, w)  BY <2>1, FeedGoesOn
  <2>2. CASE Leave(t, w)  BY <2>2, LeaveGoesOn
  <2>3. CASE Prepare(t, w)
    <3>1. pool[t].at[w].pc \in Holding  BY <2>3 DEF Prepare, At, Holding
    <3>2. CASE Move(t, w, "out") /\ WorkOver(t)
      BY <3>1, <3>2, HolderMoves DEF WorkOver
    <3>3. CASE Move(t, w, "wait")  BY <3>1, <3>3, HolderMoves DEF Holding
    <3>4. CASE Fails(t, w)  BY <3>1, <3>4, FailsGoesOn
    <3> QED  BY <2>3, <3>2, <3>3, <3>4 DEF Prepare
  <2>4. CASE TakeSlot(t, w)
    <3>1. pool[t].at[w].pc \in Holding  BY <2>4 DEF TakeSlot, At, Holding
    <3> QED  BY <2>4, <3>1, HolderMoves DEF TakeSlot, Holding
  <2>5. CASE GiveUp(t, w)
    <3>1. pool[t].at[w].pc \in Holding  BY <2>5 DEF GiveUp, At, Holding
    <3> QED  BY <2>5, <3>1, FailsGoesOn DEF GiveUp
  <2>6. CASE Recognise(t, w)
    <3>1. pool[t].at[w].pc \in Holding  BY <2>6 DEF Recognise, At, Holding
    <3> QED  BY <2>6, <3>1, FailsGoesOn, KeptGoesOn DEF Recognise
  <2> QED  BY <1>1, <2>1, <2>2, <2>3, <2>4, <2>5, <2>6 DEF WorkerStep
<1> QED  BY <1>1, CloseGoesOn DEF FeederStep

-----------------------------------------------------------------------------
(* The tasks: each step. *)

\* A task has moved to x, with pool p and a context that has ended or not.
LEMMA TaskMoves ==
    ASSUME TasksInv, NEW t \in Tasks, NEW x \in TaskRecords, NEW p \in Pools,
           NEW ended \in BOOLEAN,
           task' = [task EXCEPT ![t] = x], pool' = [pool EXCEPT ![t] = p],
           over' = [over EXCEPT ![t] = ended], PoolSound(p, ended), InPlace(x, p),
           calling' \subseteq Tasks, cache' \in [Documents -> {{}, Pages}], on' \in BOOLEAN,
           \/ x.key = task[t].key /\ (x.pc \notin {"none", "ended"} => t \in Active)
           \/ \A u \in Active : task[u].key # x.key
    PROVE  TasksInv'
<1>1. /\ pool \in [Tasks -> Pools] /\ over \in [Tasks -> BOOLEAN]
      /\ task \in [Tasks -> TaskRecords]
  BY DEF TasksInv, TasksTyped
<1>2. TasksTyped'  BY <1>1 DEF TasksTyped
<1>3. \A u \in Tasks : /\ task'[u] = IF u = t THEN x ELSE task[u]
                       /\ pool'[u] = IF u = t THEN p ELSE pool[u]
                       /\ over'[u] = IF u = t THEN ended ELSE over[u]
  BY <1>1
<1>4. PoolsSound'
  <2>1. \A u \in Tasks : PoolSound(pool[u], over[u])  BY DEF TasksInv, PoolsSound
  <2>2. ASSUME NEW u \in Tasks  PROVE PoolSound(pool'[u], over'[u])
    BY <1>3, <2>1
  <2> QED  BY <2>2 DEF PoolsSound
<1>5. TasksInPlace'
  <2>1. \A u \in Tasks : InPlace(task[u], pool[u])  BY DEF TasksInv, TasksInPlace
  <2>2. ASSUME NEW u \in Tasks  PROVE InPlace(task'[u], pool'[u])
    BY <1>3, <2>1
  <2> QED  BY <2>2 DEF TasksInPlace
<1>6. OneTaskPerKey'
  BY <1>3 DEF TasksInv, OneTaskPerKey, Active
<1> QED  BY <1>2, <1>4, <1>5, <1>6 DEF TasksInv

\* What stands for a task that has not moved
LEMMA TaskStands ==
    ASSUME TasksInv, NEW t \in Tasks
    PROVE  /\ task[t] \in TaskRecords /\ pool[t] \in Pools /\ over[t] \in BOOLEAN
           /\ PoolSound(pool[t], over[t]) /\ InPlace(task[t], pool[t])
           /\ task = [task EXCEPT ![t] = task[t]] /\ pool = [pool EXCEPT ![t] = pool[t]]
           /\ over = [over EXCEPT ![t] = over[t]] /\ calling \subseteq Tasks
           /\ cache \in [Documents -> {{}, Pages}] /\ on \in BOOLEAN
           /\ task[t].pc \notin {"none", "ended"} => t \in Active
BY DEF TasksInv, TasksTyped, PoolsSound, TasksInPlace, Active

\* The pool of a task changes, and nothing else.
LEMMA PoolKeeps ==
    ASSUME TasksInv, NEW t \in Tasks, NEW b \in Pools, pool' = [pool EXCEPT ![t] = b],
           PoolSound(b, over[t]), InPlace(task[t], b),
           UNCHANGED <<over, calling, cache, task, on, stops>>
    PROVE  TasksInv'
<1> DEFINE x == task[t]
           ended == over[t]
<1>1. /\ x \in TaskRecords /\ ended \in BOOLEAN /\ PoolSound(b, ended) /\ InPlace(x, b)
      /\ task' = [task EXCEPT ![t] = x] /\ over' = [over EXCEPT ![t] = ended]
      /\ x.key = task[t].key /\ (x.pc \notin {"none", "ended"} => t \in Active)
  BY TaskStands
<1>2. calling' \subseteq Tasks /\ cache' \in [Documents -> {{}, Pages}] /\ on' \in BOOLEAN
  BY TaskStands
<1> HIDE DEF x, ended
<1> QED  BY <1>1, <1>2, TaskMoves

LEMMA PoolStepKeeps ==
    ASSUME TasksInv, NEW t \in Tasks, PoolGoesOn(t),
           UNCHANGED <<over, calling, cache, task, on, stops>>
    PROVE  TasksInv'
<1>1. PICK b \in Pools : /\ pool' = [pool EXCEPT ![t] = b] /\ PoolSound(b, over[t])
                         /\ b.kind = pool[t].kind /\ pool[t].kind # "none"
  BY DEF PoolGoesOn
<1>2. InPlace(task[t], b)  BY <1>1, TaskStands DEF InPlace
<1> QED  BY <1>1, <1>2, PoolKeeps

\* The goroutine of a task is gone.
LEMMA EndKeeps ==
    ASSUME TasksInv, NEW t \in Tasks, NEW how \in Ends, End(t, how), task[t].pc # "none",
           task[t].told /\ ~task[t].root => how \in {"answered", "told", "unsent", "crashed"}
    PROVE  TasksInv'
<1> DEFINE x == [task[t] EXCEPT !.pc = "ended", !.how = how]
<1>1. /\ task' = [task EXCEPT ![t] = x] /\ pool' = [pool EXCEPT ![t] = NoPool]
      /\ over' = [over EXCEPT ![t] = FALSE] /\ UNCHANGED <<calling, cache, on>>
  BY DEF End
<1>2. x \in TaskRecords /\ x.pc = "ended" /\ x.how = how /\ x.key = task[t].key
      /\ x.told = task[t].told /\ x.root = task[t].root
  BY TaskStands DEF TaskRecords
<1> HIDE DEF x
<1>3. NoPool \in Pools /\ PoolSound(NoPool, FALSE) /\ NoPool.kind = "none"
  BY NewPoolsAreSound
<1>4. InPlace(x, NoPool)  BY <1>2, <1>3, TaskStands DEF InPlace
<1> QED  BY <1>1, <1>2, <1>3, <1>4, TaskStands, TaskMoves

\* A task moves, and perhaps its pool.
LEMMA GoesKeeps ==
    ASSUME TasksInv, NEW t \in Tasks, NEW pc, NEW p \in Pools, Goto(t, pc),
           pc \in Working \cup {"queued"},
           task[t].pc \notin {"none", "ended"}, pool' = [pool EXCEPT ![t] = p],
           PoolSound(p, over[t]),
           pc = "pages" => p.kind = "pages",
           pc = "chunks" => p.kind \in {"none", "chunks"},
           pc \notin {"pages", "chunks"} => p.kind = "none",
           pc \in {"answer", "asking"} => p.done = Pages,
           pc \in {"begin", "pages", "chunks"} => DocumentOf[task[t].key] \in Documents,
           calling' \subseteq Tasks, cache' \in [Documents -> {{}, Pages}],
           UNCHANGED <<over, on>>
    PROVE  TasksInv'
<1> DEFINE x == [task[t] EXCEPT !.pc = pc]
<1>1. task' = [task EXCEPT ![t] = x]  BY DEF Goto
<1>2. x \in TaskRecords /\ x.pc = pc /\ x.key = task[t].key
  BY TaskStands DEF TaskRecords
<1> HIDE DEF x
<1>3. pc # "ack" /\ pc # "ended"  BY DEF Working
<1>4. InPlace(x, p)  BY <1>2, <1>3, TaskStands DEF InPlace
<1> DEFINE ended == over[t]
<1>5. /\ over' = [over EXCEPT ![t] = ended] /\ on' \in BOOLEAN /\ ended \in BOOLEAN
      /\ PoolSound(p, ended) /\ (x.pc \notin {"none", "ended"} => t \in Active)
  BY TaskStands
<1> HIDE DEF ended
<1> QED  BY <1>1, <1>2, <1>4, <1>5, TaskMoves

\* A task moves, and its pool stays as it is.
LEMMA StaysKeeps ==
    ASSUME TasksInv, NEW t \in Tasks, NEW pc, Goto(t, pc), pc \in Working \cup {"queued"},
           task[t].pc \notin {"none", "ended"}, pool' = pool,
           pc \notin {"pages", "chunks"}, pool[t].kind = "none",
           pc \in {"answer", "asking"} => pool[t].done = Pages,
           pc = "begin" => DocumentOf[task[t].key] \in Documents,
           calling' \subseteq Tasks, UNCHANGED <<over, cache, on>>
    PROVE  TasksInv'
<1> DEFINE p == pool[t]
<1>1. /\ p \in Pools /\ PoolSound(p, over[t]) /\ pool' = [pool EXCEPT ![t] = p]
      /\ p.kind = "none" /\ (pc \in {"answer", "asking"} => p.done = Pages)
  BY TaskStands
<1>2. cache' \in [Documents -> {{}, Pages}]  BY TaskStands
<1> HIDE DEF p
<1> QED  BY <1>1, <1>2, GoesKeeps

LEMMA ReserveKeeps ==
    ASSUME TasksInv, NEW t \in Tasks, NEW k \in Keys, Reserve(t, k)
    PROVE  TasksInv'
<1> DEFINE at == IF DocumentOf[k] = NoDocument THEN "queued" ELSE "ack"
           x == [NoTask EXCEPT !.key = k, !.pc = at, !.bound = on]
<1>1. /\ task[t].pc = "none" /\ \A u \in Active : task[u].key # k
      /\ task' = [task EXCEPT ![t] = x] /\ UNCHANGED <<poolVars, on, stops>>
  BY DEF Reserve, Is, TaskOnly
<1>2. at \in {"queued", "ack"}  OBVIOUS
<1> HIDE DEF at
<1>3. x \in TaskRecords /\ x.pc = at /\ x.key = k /\ ~x.told
  <2>1. NoTask \in TaskRecords  BY DEF NoTask, TaskRecords, Ends
  <2> QED  BY <1>2, <2>1, TaskStands DEF TaskRecords, NoTask
<1> HIDE DEF x
<1>4. pool[t].kind = "none"  BY <1>1, TaskStands DEF InPlace
<1>5. InPlace(x, pool[t])  BY <1>2, <1>3, <1>4 DEF InPlace
<1>6. /\ pool' = [pool EXCEPT ![t] = pool[t]] /\ over' = [over EXCEPT ![t] = over[t]]
      /\ calling' \subseteq Tasks /\ cache' \in [Documents -> {{}, Pages}] /\ on' \in BOOLEAN
  BY <1>1, TaskStands DEF poolVars
<1>7. pool[t] \in Pools /\ over[t] \in BOOLEAN /\ PoolSound(pool[t], over[t])  BY TaskStands
<1>8. \A u \in Active : task[u].key # x.key  BY <1>1, <1>3
<1> DEFINE p == pool[t]
           ended == over[t]
<1>9. /\ pool' = [pool EXCEPT ![t] = p] /\ over' = [over EXCEPT ![t] = ended]
      /\ p \in Pools /\ ended \in BOOLEAN /\ PoolSound(p, ended) /\ InPlace(x, p)
  BY <1>5, <1>6, <1>7
<1> HIDE DEF p, ended
<1> QED  BY <1>1, <1>3, <1>6, <1>8, <1>9, TaskMoves

LEMMA AckKeeps ==
    ASSUME TasksInv, NEW t \in Tasks, Ack(t)
    PROVE  TasksInv'
<1>1. task[t].pc = "ack" /\ ~task[t].told
  BY TaskStands DEF Ack, Is, InPlace
<1>2. CASE task' = [task EXCEPT ![t].pc = "queued", ![t].told = TRUE, ![t].bound = on]
           /\ TaskOnly
  <2> DEFINE x == [task[t] EXCEPT !.pc = "queued", !.told = TRUE, !.bound = on]
  <2>1. x \in TaskRecords /\ x.pc = "queued" /\ x.key = task[t].key
    BY TaskStands DEF TaskRecords
  <2>2. task' = [task EXCEPT ![t] = x]  BY <1>2
  <2> HIDE DEF x
  <2>3. InPlace(x, pool[t])  BY <1>1, <2>1, TaskStands DEF InPlace
  <2>4. /\ pool' = [pool EXCEPT ![t] = pool[t]] /\ over' = [over EXCEPT ![t] = over[t]]
        /\ calling' \subseteq Tasks /\ cache' \in [Documents -> {{}, Pages}] /\ on' \in BOOLEAN
    BY <1>2, TaskStands DEF poolVars, TaskOnly
  <2> QED  BY <1>1, <2>1, <2>2, <2>3, <2>4, TaskStands, TaskMoves
<1>3. CASE End(t, "withdrawn")
  BY <1>1, <1>3, EndKeeps DEF Ends
<1> QED  BY <1>2, <1>3 DEF Ack

LEMMA BeginKeeps ==
    ASSUME TasksInv, NEW t \in Tasks, Begin(t)
    PROVE  TasksInv'
<1> DEFINE pc == IF DocumentOf[task[t].key] = NoDocument THEN "image" ELSE "begin"
<1>1. task[t].pc = "queued" /\ Goto(t, pc) /\ UNCHANGED <<pool, over, calling, cache, on>>
  BY DEF Begin, Is, TaskOnly, poolVars
<1>2. task[t].key \in Keys /\ pool[t].kind = "none" /\ calling' \subseteq Tasks
  BY <1>1, TaskStands DEF InPlace
<1>3. pc \in {"image", "begin"} /\ (pc = "begin" => DocumentOf[task[t].key] \in Documents)
  BY <1>2, TaskConstants
<1> HIDE DEF pc
<1>4. pc \in Working \cup {"queued"} /\ pc \notin {"pages", "chunks", "answer", "asking"}
  BY <1>3 DEF Working
<1> QED  BY <1>1, <1>2, <1>3, <1>4, StaysKeeps

LEMMA OpenKeeps ==
    ASSUME TasksInv, NEW t \in Tasks, Open(t)
    PROVE  TasksInv'
<1>1. task[t].pc = "begin" /\ UNCHANGED <<over, calling, cache, on>>  BY DEF Open, Is
<1>2. pool[t].kind = "none" /\ DocumentOf[task[t].key] \in Documents
      /\ pool[t] \in Pools /\ PoolSound(pool[t], over[t])
      /\ calling \subseteq Tasks /\ cache \in [Documents -> {{}, Pages}]
  BY <1>1, TaskStands DEF InPlace
<1>3. CASE /\ cache[Document(t)] # {} /\ pool' = [pool EXCEPT ![t].done = cache[Document(t)]]
           /\ Goto(t, "answer") \/ Goto(t, "chunks")
  <2> DEFINE b == [pool[t] EXCEPT !.done = Pages]
  <2>1. cache[Document(t)] = Pages  BY <1>2, <1>3 DEF Document
  <2>2. pool' = [pool EXCEPT ![t] = b]  BY <1>3, <2>1
  <2>3. b \in Pools /\ b.kind = "none" /\ b.done = Pages /\ b.open = pool[t].open
        /\ b.at = pool[t].at /\ b.failed = pool[t].failed
    BY <1>2 DEF Pools
  <2> HIDE DEF b
  <2>4. PoolSound(b, over[t])  BY <1>2, <2>3 DEF PoolSound, Holding
  <2>5. PICK pc \in {"answer", "chunks"} : Goto(t, pc)  BY <1>3
  <2>6. pc \in Working \cup {"queued"} /\ pc # "pages"  BY <2>5 DEF Working
  <2>7. calling' \subseteq Tasks /\ cache' \in [Documents -> {{}, Pages}]
        /\ UNCHANGED <<over, on>>
    BY <1>1, <1>2
  <2> QED  BY <1>1, <1>2, <2>2, <2>3, <2>4, <2>5, <2>6, <2>7, GoesKeeps
<1>4. CASE pool' = [pool EXCEPT ![t] = NewPool("pages")] /\ Goto(t, "pages")
  <2>1. NewPool("pages") \in Pools /\ PoolSound(NewPool("pages"), over[t])
        /\ NewPool("pages").kind = "pages"
    BY NewPoolsAreSound DEF PoolSound
  <2>2. "pages" \in Working \cup {"queued"}  BY DEF Working
  <2>3. calling' \subseteq Tasks /\ cache' \in [Documents -> {{}, Pages}]
        /\ UNCHANGED <<over, on>>
    BY <1>1, <1>2
  <2> QED  BY <1>1, <1>2, <1>4, <2>1, <2>2, <2>3, GoesKeeps
<1>5. CASE Goto(t, "failed") /\ UNCHANGED pool
  <2>1. "failed" \in Working \cup {"queued"}  BY DEF Working
  <2>2. calling' \subseteq Tasks /\ cache' \in [Documents -> {{}, Pages}]
        /\ UNCHANGED <<over, on>>
    BY <1>1, <1>2
  <2> QED  BY <1>1, <1>2, <1>5, <2>1, <2>2, StaysKeeps
<1> QED  BY <1>3, <1>4, <1>5 DEF Open

\* A pool whose workers have all left, although nothing failed and the time is
\* not up, has done everything.
LEMMA JoinedIsDone ==
    ASSUME NEW p, PoolSound(p, FALSE), p.kind # "none", ~p.failed,
           \A w \in Workers : p.at[w].pc = "out"
    PROVE  p.done = Pages
<1>1. p \in Pools  BY DEF PoolSound
<1>2. ~p.open  BY PoolNumbers DEF PoolSound
<1>3. p.next = PageCount + 1  BY <1>2 DEF PoolSound
<1>4. ASSUME NEW q \in Pages  PROVE q \in p.done
  <2>1. q < p.next  BY <1>3, PoolNumbers
  <2> QED  BY <2>1 DEF PoolSound, Holding
<1> QED  BY <1>1, <1>4 DEF Pools

LEMMA RecognisedKeeps ==
    ASSUME TasksInv, NEW t \in Tasks, Recognised(t)
    PROVE  TasksInv'
<1> DEFINE b == [NoPool EXCEPT !.done = pool[t].done]
<1>1. /\ task[t].pc = "pages" /\ \A w \in Workers : pool[t].at[w].pc = "out"
      /\ pool' = [pool EXCEPT ![t] = b] /\ UNCHANGED <<over, calling, on>>
  BY DEF Recognised, Is, Joined, At
<1>2. /\ pool[t].kind = "pages" /\ DocumentOf[task[t].key] \in Documents
      /\ pool[t] \in Pools /\ PoolSound(pool[t], over[t])
      /\ calling \subseteq Tasks /\ cache \in [Documents -> {{}, Pages}]
  BY <1>1, TaskStands DEF InPlace
<1>3. pool[t].done \in SUBSET Pages  BY <1>2 DEF Pools
<1>4. b \in Pools /\ PoolSound(b, over[t]) /\ b.kind = "none" /\ b.done = pool[t].done
  BY <1>3, NewPoolsAreSound DEF PoolSound
<1> HIDE DEF b
<1>5. CASE ~pool[t].failed /\ ~over[t]
  <2>1. pool[t].done = Pages
    <3>1. PoolSound(pool[t], FALSE)  BY <1>2, <1>5 DEF PoolSound
    <3> QED  BY <1>1, <1>2, <1>5, <3>1, JoinedIsDone
  <2>2. PICK pc \in {"answer", "chunks"} : Goto(t, pc)
    BY <1>5 DEF Recognised, PagesComplete
  <2>3. cache' \in [Documents -> {{}, Pages}]
    <3>1. cache' = [cache EXCEPT ![Document(t)] = Pages] \/ cache' = cache
      BY <1>5, <2>1 DEF Recognised, PagesComplete
    <3> QED  BY <1>2, <3>1
  <2>4. pc \in Working \cup {"queued"} /\ pc # "pages"  BY <2>2 DEF Working
  <2>5. calling' \subseteq Tasks /\ UNCHANGED <<over, on>>  BY <1>1, <1>2
  <2> QED  BY <1>1, <1>2, <1>4, <2>1, <2>2, <2>3, <2>4, <2>5, GoesKeeps
<1>6. CASE ~(~pool[t].failed /\ ~over[t])
  <2>1. Goto(t, "failed") /\ cache' = cache  BY <1>6 DEF Recognised, PagesComplete
  <2>2. "failed" \in Working \cup {"queued"}  BY DEF Working
  <2>3. calling' \subseteq Tasks /\ cache' \in [Documents -> {{}, Pages}]
        /\ UNCHANGED <<over, on>>
    BY <1>1, <1>2, <2>1
  <2> QED  BY <1>1, <1>4, <2>1, <2>2, <2>3, GoesKeeps
<1> QED  BY <1>5, <1>6

LEMMA CondenseKeeps ==
    ASSUME TasksInv, NEW t \in Tasks, Condense(t)
    PROVE  TasksInv'
<1> DEFINE b == NewPool("chunks")
<1>1. b \in Pools /\ PoolSound(b, over[t]) /\ b.kind = "chunks"
  BY NewPoolsAreSound DEF PoolSound
<1>2. pool' = [pool EXCEPT ![t] = b] /\ task[t].pc = "chunks"
      /\ UNCHANGED <<over, calling, cache, task, on, stops>>
  BY DEF Condense, Is
<1> HIDE DEF b
<1>3. InPlace(task[t], b)  BY <1>1, <1>2, TaskStands DEF InPlace
<1> QED  BY <1>1, <1>2, <1>3, PoolKeeps

LEMMA CondensedKeeps ==
    ASSUME TasksInv, NEW t \in Tasks, Condensed(t)
    PROVE  TasksInv'
<1> DEFINE b == [NoPool EXCEPT !.done = pool[t].done]
           pc == IF over[t] THEN "failed" ELSE "answer"
<1>1. /\ task[t].pc = "chunks" /\ \A w \in Workers : pool[t].at[w].pc = "out"
      /\ pool[t].kind = "chunks"
      /\ pool' = [pool EXCEPT ![t] = b] /\ Goto(t, pc) /\ UNCHANGED <<over, calling, cache, on>>
  BY DEF Condensed, Is, Joined, At
<1>2. /\ pool[t] \in Pools /\ PoolSound(pool[t], over[t])
      /\ calling \subseteq Tasks /\ cache \in [Documents -> {{}, Pages}]
  BY TaskStands
<1>3. pool[t].done \in SUBSET Pages  BY <1>2 DEF Pools
<1>4. b \in Pools /\ PoolSound(b, over[t]) /\ b.kind = "none" /\ b.done = pool[t].done
  BY <1>3, NewPoolsAreSound DEF PoolSound
<1> HIDE DEF b
<1>5. pc \in {"failed", "answer"} /\ (pc = "answer" => ~over[t])  OBVIOUS
<1> HIDE DEF pc
<1>6. pc = "answer" => pool[t].done = Pages
  <2> SUFFICES ASSUME pc = "answer"  PROVE pool[t].done = Pages
    OBVIOUS
  <2>1. PoolSound(pool[t], FALSE)  BY <1>2, <1>5 DEF PoolSound
  <2>2. ~pool[t].failed  BY <1>1, <1>2 DEF PoolSound
  <2> QED  BY <1>1, <2>1, <2>2, JoinedIsDone
<1>7. pc \in Working \cup {"queued"} /\ pc \notin {"pages", "chunks", "asking", "begin"}
  BY <1>5 DEF Working
<1>8. calling' \subseteq Tasks /\ cache' \in [Documents -> {{}, Pages}]
      /\ UNCHANGED <<over, on>>
  BY <1>1, <1>2
<1> QED  BY <1>1, <1>4, <1>6, <1>7, <1>8, GoesKeeps

LEMMA AskKeeps ==
    ASSUME TasksInv, NEW t \in Tasks, Ask(t)
    PROVE  TasksInv'
<1>1. task[t].pc = "answer" /\ UNCHANGED <<pool, over, cache, on>>  BY DEF Ask, Is
<1>2. pool[t].kind = "none" /\ pool[t].done = Pages /\ calling \subseteq Tasks
  BY <1>1, TaskStands DEF InPlace
<1>3. calling' \subseteq Tasks  BY <1>2 DEF Ask
<1>4. PICK pc \in {"asking", "failed"} : Goto(t, pc)  BY DEF Ask
<1>5. pc \in Working \cup {"queued"} /\ pc \notin {"pages", "chunks", "begin"}
  BY <1>4 DEF Working
<1> QED  BY <1>1, <1>2, <1>3, <1>4, <1>5, StaysKeeps

LEMMA AnsweredKeeps ==
    ASSUME TasksInv, NEW t \in Tasks, Answered(t)
    PROVE  TasksInv'
<1>1. task[t].pc = "asking" /\ UNCHANGED <<pool, over, cache, on>>  BY DEF Answered, Is
<1>2. pool[t].kind = "none" /\ calling \subseteq Tasks  BY <1>1, TaskStands DEF InPlace
<1>3. calling' \subseteq Tasks  BY <1>2 DEF Answered
<1>4. PICK pc \in {"reply", "failed"} : Goto(t, pc)  BY DEF Answered
<1>5. pc \in Working \cup {"queued"}
      /\ pc \notin {"pages", "chunks", "begin", "answer", "asking"}
  BY <1>4 DEF Working
<1> QED  BY <1>1, <1>2, <1>3, <1>4, <1>5, StaysKeeps

LEMMA DrawKeeps ==
    ASSUME TasksInv, NEW t \in Tasks, Draw(t)
    PROVE  TasksInv'
<1>1. task[t].pc = "image" /\ UNCHANGED <<pool, over, calling, cache, on>>
  BY DEF Draw, Is, TaskOnly, poolVars
<1>2. pool[t].kind = "none" /\ calling \subseteq Tasks  BY <1>1, TaskStands DEF InPlace
<1>3. PICK pc \in {"reply", "failed"} : Goto(t, pc)  BY DEF Draw
<1>4. pc \in Working \cup {"queued"}
      /\ pc \notin {"pages", "chunks", "begin", "answer", "asking"}
  BY <1>3 DEF Working
<1> QED  BY <1>1, <1>2, <1>3, <1>4, StaysKeeps

LEMMA EndsKeep ==
    ASSUME TasksInv, NEW t \in Tasks, Dismiss(t) \/ Reply(t) \/ Report(t)
    PROVE  TasksInv'
<1>1. CASE Dismiss(t)
  <2>1. task[t].pc = "queued" /\ task[t].root /\ End(t, "stopped")
    BY <1>1 DEF Dismiss, Is
  <2> QED  BY <2>1, EndKeeps DEF Ends
<1>2. CASE Reply(t)
  <2>1. task[t].pc = "reply" /\ (End(t, "answered") \/ End(t, "unsent"))
    BY <1>2 DEF Reply, Is
  <2> QED  BY <2>1, EndKeeps DEF Ends
<1>3. CASE Report(t)
  <2>1. /\ task[t].pc = "failed"
        /\ \/ task[t].root /\ End(t, "silent")
           \/ End(t, "told")
           \/ End(t, "unsent")
    BY <1>3 DEF Report, Is
  <2> QED  BY <2>1, EndKeeps DEF Ends
<1> QED  BY <1>1, <1>2, <1>3

LEMMA TimeOutKeeps ==
    ASSUME TasksInv, NEW t \in Tasks, TimeOut(t)
    PROVE  TasksInv'
<1> DEFINE x == task[t]
           p == pool[t]
<1>1. /\ x \in TaskRecords /\ p \in Pools /\ PoolSound(p, over[t]) /\ InPlace(x, p)
      /\ task' = [task EXCEPT ![t] = x] /\ pool' = [pool EXCEPT ![t] = p]
      /\ x.key = task[t].key /\ (x.pc \notin {"none", "ended"} => t \in Active)
  BY TaskStands DEF TimeOut
<1>2. over' = [over EXCEPT ![t] = TRUE] /\ calling' \subseteq Tasks
      /\ cache' \in [Documents -> {{}, Pages}] /\ on' \in BOOLEAN
  BY TaskStands DEF TimeOut
<1>3. PoolSound(p, TRUE)  BY <1>1, EndedIsSound
<1> HIDE DEF x, p
<1> QED  BY <1>1, <1>2, <1>3, TaskMoves

-----------------------------------------------------------------------------
(* The tasks: the bot. *)

\* All tasks change at once, without a new one and without another key.
LEMMA AllMove ==
    ASSUME TasksInv, task' \in [Tasks -> TaskRecords], pool' \in [Tasks -> Pools],
           over' \in [Tasks -> BOOLEAN], calling' \subseteq Tasks, UNCHANGED cache,
           on' \in BOOLEAN,
           \A t \in Tasks : PoolSound(pool'[t], over'[t]) /\ InPlace(task'[t], pool'[t]),
           \A t \in Tasks : /\ task'[t].key = task[t].key
                            /\ task'[t].pc \in {task[t].pc, "ended"}
    PROVE  TasksInv'
<1>1. TasksTyped'  BY DEF TasksInv, TasksTyped
<1>2. PoolsSound' /\ TasksInPlace'  BY DEF PoolsSound, TasksInPlace
<1>3. OneTaskPerKey'
  <2>1. \A t, u \in Tasks : task[t].pc \notin {"none", "ended"} /\ t # u
                            /\ task[u].pc \notin {"none", "ended"} => task[t].key # task[u].key
    BY DEF TasksInv, OneTaskPerKey, Active
  <2>2. \A t, u \in Tasks : task'[t].pc \notin {"none", "ended"} /\ t # u
                            /\ task'[u].pc \notin {"none", "ended"} => task'[t].key # task'[u].key
    BY <2>1
  <2> QED  BY <2>2 DEF OneTaskPerKey, Active
<1> QED  BY <1>1, <1>2, <1>3 DEF TasksInv

LEMMA StopKeeps ==
    ASSUME TasksInv, Stop
    PROVE  TasksInv'
<1> DEFINE leaving == {t \in Active : task[t].bound /\ ~Is(t, "ack")}
<1>1. /\ on' = FALSE /\ UNCHANGED <<pool, calling, cache>>
      /\ task' = [t \in Tasks |-> IF t \in leaving THEN [task[t] EXCEPT !.root = TRUE]
                                                 ELSE task[t]]
      /\ over' = [t \in Tasks |-> over[t] \/ t \in leaving]
  BY DEF Stop
<1>2. \A t \in leaving : task[t].pc # "ended"  BY DEF Active
<1> HIDE DEF leaving
<1>3. ASSUME NEW t \in Tasks
      PROVE  /\ task'[t] \in TaskRecords /\ task'[t].key = task[t].key
             /\ task'[t].pc = task[t].pc /\ InPlace(task'[t], pool[t])
             /\ over'[t] \in BOOLEAN /\ (over[t] => over'[t])
  <2>1. task[t] \in TaskRecords /\ InPlace(task[t], pool[t])  BY TaskStands
  <2>2. over'[t] \in BOOLEAN /\ (over[t] => over'[t])  BY <1>1
  <2>3. CASE t \in leaving
    <3> DEFINE x == [task[t] EXCEPT !.root = TRUE]
    <3>1. x \in TaskRecords /\ x.pc = task[t].pc /\ x.key = task[t].key
          /\ x.told = task[t].told /\ x.how = task[t].how /\ x.root
      BY <2>1 DEF TaskRecords
    <3>2. task'[t] = x  BY <1>1, <2>3
    <3> HIDE DEF x
    <3>3. InPlace(x, pool[t])  BY <2>1, <3>1 DEF InPlace
    <3> QED  BY <2>2, <3>1, <3>2, <3>3
  <2>4. CASE t \notin leaving
    <3>1. task'[t] = task[t]  BY <1>1, <2>4
    <3> QED  BY <2>1, <2>2, <3>1
  <2> QED  BY <2>3, <2>4
<1>4. task' \in [Tasks -> TaskRecords] /\ over' \in [Tasks -> BOOLEAN]
  <2> DEFINE f == task'
             g == over'
  <2>1. f = [t \in Tasks |-> f[t]] /\ g = [t \in Tasks |-> g[t]]  BY <1>1
  <2>2. \A t \in Tasks : f[t] \in TaskRecords /\ g[t] \in BOOLEAN  BY <1>3
  <2> HIDE DEF f, g
  <2>3. f \in [Tasks -> TaskRecords] /\ g \in [Tasks -> BOOLEAN]  BY <2>1, <2>2
  <2> QED  BY <2>3 DEF f, g
<1>5. pool' \in [Tasks -> Pools] /\ calling' \subseteq Tasks  BY <1>1 DEF TasksInv, TasksTyped
<1>6. \A t \in Tasks : PoolSound(pool'[t], over'[t])
  BY <1>1, <1>3, TaskStands, EndedIsSound
<1> QED  BY <1>1, <1>3, <1>4, <1>5, <1>6, AllMove

LEMMA RestartKeeps ==
    ASSUME TasksInv, Restart
    PROVE  TasksInv'
<1> DEFINE x(t) == IF t \in Active THEN [task[t] EXCEPT !.pc = "ended", !.how = "crashed"]
                   ELSE task[t]
<1>1. /\ on' = TRUE /\ UNCHANGED cache /\ calling' = {}
      /\ pool' = [t \in Tasks |-> NoPool] /\ over' = [t \in Tasks |-> FALSE]
      /\ task' = [t \in Tasks |-> x(t)]
  BY DEF Restart
<1>2. NoPool \in Pools /\ PoolSound(NoPool, FALSE) /\ NoPool.kind = "none"
  BY NewPoolsAreSound
<1>3. ASSUME NEW t \in Tasks
      PROVE  /\ x(t) \in TaskRecords /\ x(t).key = task[t].key
             /\ x(t).pc \in {task[t].pc, "ended"} /\ InPlace(x(t), NoPool)
  <2>1. task[t] \in TaskRecords /\ InPlace(task[t], pool[t])  BY TaskStands
  <2>2. CASE t \in Active
    <3> DEFINE y == [task[t] EXCEPT !.pc = "ended", !.how = "crashed"]
    <3>1. y \in TaskRecords /\ y.pc = "ended" /\ y.key = task[t].key
          /\ y.told = task[t].told /\ y.how = "crashed"
      BY <2>1 DEF TaskRecords, Ends
    <3>2. x(t) = y /\ task[t].pc # "none"  BY <2>2 DEF Active
    <3> HIDE DEF x, y
    <3>3. InPlace(y, NoPool)  BY <1>2, <2>1, <3>1, <3>2 DEF InPlace
    <3> QED  BY <3>1, <3>2, <3>3
  <2>3. CASE t \notin Active
    <3>1. x(t) = task[t] /\ task[t].pc \in {"none", "ended"}  BY <2>3 DEF Active
    <3> HIDE DEF x
    <3>2. InPlace(task[t], NoPool)  BY <1>2, <2>1, <3>1 DEF InPlace
    <3> QED  BY <2>1, <3>1, <3>2
  <2> QED  BY <2>2, <2>3
<1> HIDE DEF x
<1>4. task' \in [Tasks -> TaskRecords] /\ pool' \in [Tasks -> Pools]
      /\ over' \in [Tasks -> BOOLEAN]
  BY <1>1, <1>2, <1>3
<1>5. \A t \in Tasks : /\ PoolSound(pool'[t], over'[t]) /\ InPlace(task'[t], pool'[t])
                       /\ task'[t].key = task[t].key /\ task'[t].pc \in {task[t].pc, "ended"}
  BY <1>1, <1>2, <1>3
<1> QED  BY <1>1, <1>4, <1>5, AllMove

-----------------------------------------------------------------------------
(* The tasks: theorems. *)

LEMMA TasksBegin == Init => TasksInv
<1> SUFFICES ASSUME Init  PROVE TasksInv
  OBVIOUS
<1>1. /\ pool = [t \in Tasks |-> NoPool] /\ over = [t \in Tasks |-> FALSE] /\ calling = {}
      /\ cache = [d \in Documents |-> {}] /\ task = [t \in Tasks |-> NoTask] /\ on = TRUE
  BY DEF Init
<1>2. NoPool \in Pools /\ PoolSound(NoPool, FALSE) /\ NoPool.kind = "none"
  BY NewPoolsAreSound
<1>3. NoTask \in TaskRecords /\ NoTask.pc = "none"  BY DEF NoTask, TaskRecords, Ends
<1>4. InPlace(NoTask, NoPool)  BY <1>2, <1>3 DEF InPlace
<1>5. TasksTyped  BY <1>1, <1>2, <1>3 DEF TasksTyped
<1>6. PoolsSound /\ TasksInPlace  BY <1>1, <1>2, <1>4 DEF PoolsSound, TasksInPlace
<1>7. OneTaskPerKey  BY <1>1, <1>3 DEF OneTaskPerKey, Active
<1> QED  BY <1>5, <1>6, <1>7 DEF TasksInv

LEMMA TaskStepKeeps ==
    ASSUME TasksInv, NEW t \in Tasks, TaskStep(t)
    PROVE  TasksInv'
<1>1. CASE Ack(t) \/ Begin(t) \/ Open(t) \/ Recognised(t)
  BY <1>1, AckKeeps, BeginKeeps, OpenKeeps, RecognisedKeeps
<1>2. CASE Condense(t) \/ Condensed(t) \/ Ask(t) \/ Answered(t) \/ Draw(t)
  BY <1>2, CondenseKeeps, CondensedKeeps, AskKeeps, AnsweredKeeps, DrawKeeps
<1>3. CASE Dismiss(t) \/ Reply(t) \/ Report(t)  BY <1>3, EndsKeep
<1>4. CASE /\ FeederStep(t) \/ \E w \in Workers : WorkerStep(t, w)
           /\ UNCHANGED <<task, on, stops>>
  <2>1. UNCHANGED <<over, calling, cache>>  BY <1>4 DEF FeederStep, WorkerStep
  <2>2. PoolGoesOn(t)  BY <1>4, PoolStepGoesOn DEF TasksInv
  <2> QED  BY <1>4, <2>1, <2>2, PoolStepKeeps
<1> QED  BY <1>1, <1>2, <1>3, <1>4 DEF TaskStep

LEMMA TasksStep == TasksInv /\ [Next]_vars => TasksInv'
<1> SUFFICES ASSUME TasksInv, [Next]_vars  PROVE TasksInv'
  OBVIOUS
<1>1. CASE UNCHANGED vars
  BY <1>1 DEF vars, poolVars, TasksInv, TasksTyped, PoolsSound, TasksInPlace, OneTaskPerKey,
              Active
<1>2. CASE Start
  BY <1>2 DEF Start, poolVars, TasksInv, TasksTyped, PoolsSound, TasksInPlace, OneTaskPerKey,
              Active
<1>3. CASE Next
  BY <1>2, <1>3, ReserveKeeps, TaskStepKeeps, TimeOutKeeps, StopKeeps, RestartKeeps DEF Next
<1> QED  BY <1>1, <1>3

\* The invariant of the background tasks (subagent_task.go): whatever fails,
\* stops or runs out of time, a pool without an error has lost no page.
THEOREM TasksAreSound == Spec => []TasksInv
<1> QED  BY TasksBegin, TasksStep, PTL DEF Spec

\* Tasks do not double one another, take no half result for a whole one, and
\* their users hear how they ended, whatever the number of tasks, of workers,
\* of pages and of slots.
THEOREM TasksAreSafe == Spec => []TasksSafe
<1>1. ASSUME TasksInv  PROVE TasksSafe
  <2>1. TypeOK
    <3>1. \A t \in Tasks : /\ task[t].pc \in Working \cup {"none", "ack", "queued", "ended"}
                           /\ pool[t].done \subseteq Pages
                           /\ pool[t].next \in 1 .. PageCount + 1
      BY <1>1 DEF TasksInv, TasksTyped, TaskRecords, Pools
    <3>2. cache \in [Documents -> SUBSET Pages] /\ calling \subseteq Tasks
      BY <1>1 DEF TasksInv, TasksTyped
    <3> QED  BY <3>1, <3>2 DEF TypeOK
  <2>2. NothingLeftOut
    BY <1>1 DEF TasksInv, TasksTyped, TasksInPlace, InPlace, NothingLeftOut
  <2>3. EndsAreAnnounced
    BY <1>1 DEF TasksInv, TasksInPlace, InPlace, EndsAreAnnounced, Is
  <2> QED  BY <1>1, <2>1, <2>2, <2>3 DEF TasksInv, TasksSafe
<1> QED  BY <1>1, TasksAreSound, PTL

-----------------------------------------------------------------------------
(* The search: the invariant. *)

Engaged == {"initialize", "announce", "call", "query", "close", "judge"}
Searches ==
    [at : Engaged \cup {"idle", "next", "done"}, test : BOOLEAN, providers : Seq(Sites),
     turn : Nat \ {0}, until : Int, limit : Int, session : BOOLEAN, good : BOOLEAN]

\* What became of the providers so far, in their order
InOrder(list, tried) ==
    \A i \in 1 .. Len(tried) :
        i \in 1 .. Len(list) => (tried[i] = "skipped" <=> ~Usable(list[i]))

\* Search s, which is no test, at time t
InTurn(s, t, tried, result) ==
    /\ InOrder(s.providers, tried)
    /\ s.at = "idle" => tried = <<>> /\ result = 0
    /\ s.at = "next" => s.turn <= Len(s.providers) + 1
    /\ s.at \in Engaged => s.turn \in 1 .. Len(s.providers) /\ Usable(s.providers[s.turn])
    /\ s.at \in Engaged \cup {"next"} => Len(tried) = s.turn - 1 /\ result = 0
    /\ s.at = "done" =>
          /\ Len(tried) >= Len(s.providers) \/ result # 0 \/ t >= s.until
          /\ result # 0 => result = Len(tried) /\ tried[result] = "success"

\* The session that is open, if one is
OpenSession(s) == IF s.session /\ s.at \in {"announce", "call", "close"} THEN {s.turn} ELSE {}

SearchInv ==
    /\ settings \in Seq(Sites) /\ search \in Searches /\ clock \in Nat /\ found \in Nat
    /\ attempts \in Seq({"skipped", "success", "failed"})
    /\ search.at = "idle" => search = NoSearch
    /\ search.at \in {"initialize", "query"} => ~search.session
    /\ given \subseteq deleted \cup OpenSession(search)
    /\ ~search.test => InTurn(search, clock, attempts, found)

-----------------------------------------------------------------------------
(* The search: each step. *)

LEMMA NormalizedType ==
    ASSUME NEW list \in Seq(Sites)
    PROVE  Normalized(list) \in Seq(Sites) /\ Len(Normalized(list)) = Len(list)
<1> DEFINE p(i) == [list[i] EXCEPT !.time = Bounded(@), !.keyed = @ \/ list[i].type = "tavily"]
<1>1. Len(list) \in Nat /\ DOMAIN list = 1 .. Len(list)  BY LenProperties
<1>2. ASSUME NEW i \in 1 .. Len(list)  PROVE p(i) \in Sites
  <2>1. list[i] \in Sites  BY <1>2, ElementOfSeq
  <2>2. Bounded(list[i].time) \in Int  BY <2>1, SearchAssumption DEF Bounded, Sites
  <2> QED  BY <2>1, <2>2 DEF Sites
<1>3. Normalized(list) = [i \in 1 .. Len(list) |-> p(i)]  BY <1>1 DEF Normalized
<1> HIDE DEF p
<1> QED  BY <1>1, <1>2, <1>3

LEMMA LoadedType == SearchInv => Loaded \in Seq(Sites)
BY SearchAssumption DEF SearchInv, Loaded

LEMMA SearchBegins == SearchInit => SearchInv
<1> SUFFICES ASSUME SearchInit  PROVE SearchInv
  OBVIOUS
<1>1. settings \in Seq(Sites)
  <2>1. settings \in Settings \/ settings = <<>>  BY DEF SearchInit, NoSettings
  <2>2. Settings \subseteq Seq(Sites)  BY SearchAssumption
  <2>3. <<>> \in Seq(Sites)  OBVIOUS
  <2> QED  BY <2>1, <2>2, <2>3
<1>2. /\ NoSearch \in Searches /\ NoSearch.at = "idle" /\ NoSearch.providers = <<>>
      /\ ~NoSearch.session
  BY DEF NoSearch, Searches, Engaged
<1>3. search = NoSearch /\ clock = 0 /\ found = 0 /\ attempts = <<>> /\ given = {}
  BY DEF SearchInit
<1>4. InTurn(search, clock, attempts, found)
  BY <1>2, <1>3 DEF InTurn, InOrder, Engaged
<1> QED  BY <1>1, <1>2, <1>3, <1>4 DEF SearchInv

LEMMA SavingKeeps ==
    ASSUME SearchInv, SaveFails \/ \E list \in Settings : SaveSettings(list)
    PROVE  SearchInv'
<1>1. UNCHANGED <<search, clock, attempts, given, deleted, found>>
  BY DEF SaveFails, SaveSettings
<1>2. settings' \in Seq(Sites)
  <2>1. CASE SaveFails  BY <2>1 DEF SaveFails, SearchInv
  <2>2. ASSUME NEW list \in Settings, SaveSettings(list)  PROVE settings' \in Seq(Sites)
    <3>1. list \in Seq(Sites)  BY SearchAssumption
    <3>2. Normalized(list) \in Seq(Sites)  BY <3>1, NormalizedType
    <3> QED  BY <2>2, <3>2 DEF SaveSettings, SearchInv
  <2> QED  BY <2>1, <2>2
<1> QED  BY <1>1, <1>2 DEF SearchInv

\* A search begins once, before anything is known.
LEMMA BeginningKeeps ==
    ASSUME SearchInv,
           BeginSearch \/ \E list \in Settings : \E i \in DOMAIN list : BeginTest(list[i])
    PROVE  SearchInv'
<1>1. /\ search.at = "idle" /\ search = NoSearch /\ ~search.test
      /\ UNCHANGED <<settings, clock, attempts, given, deleted, found>>
  <2>1. /\ search.at = "idle"
        /\ UNCHANGED <<settings, clock, attempts, given, deleted, found>>
    BY DEF BeginSearch, BeginTest
  <2>2. search = NoSearch  BY <2>1 DEF SearchInv
  <2>3. ~search.test  BY <2>2 DEF NoSearch
  <2> QED  BY <2>1, <2>2, <2>3
<1>2. /\ attempts = <<>> /\ found = 0 /\ given \subseteq deleted
      /\ settings \in Seq(Sites) /\ clock \in Nat
  BY <1>1 DEF SearchInv, InTurn, OpenSession
<1>3. NoSearch \in Searches /\ NoSearch.turn = 1 /\ NoSearch.providers = <<>>
      /\ ~NoSearch.session /\ ~NoSearch.test
  BY DEF NoSearch, Searches, Engaged
<1>4. SearchTime \in Int  BY SearchAssumption
<1>5. /\ search' \in Searches /\ search'.at # "idle" /\ ~search'.session
      /\ search'.at = "next" \/ search'.test \/ (search'.at = "done" /\ search'.providers = <<>>)
      /\ search'.at = "next" => search'.turn = 1
  <2>1. CASE search' = [NoSearch EXCEPT !.at = "done"]
    <3> DEFINE s == [NoSearch EXCEPT !.at = "done"]
    <3>1. /\ s \in Searches /\ s.at = "done" /\ ~s.session /\ s.providers = <<>>
      BY <1>3 DEF Searches
    <3> HIDE DEF s
    <3> QED  BY <2>1, <3>1 DEF s
  <2>2. CASE search' = [NoSearch EXCEPT !.at = "next", !.providers = Normalized(Loaded),
                           !.until = SearchTime]
    <3> DEFINE s == [NoSearch EXCEPT !.at = "next", !.providers = Normalized(Loaded),
                        !.until = SearchTime]
    <3>1. Normalized(Loaded) \in Seq(Sites)  BY LoadedType, NormalizedType
    <3>2. s \in Searches /\ s.at = "next" /\ ~s.session /\ s.turn = 1
      BY <1>3, <1>4, <3>1 DEF Searches
    <3> HIDE DEF s
    <3> QED  BY <2>2, <3>2 DEF s
  <2>3. ASSUME NEW list \in Settings, NEW i \in DOMAIN list,
               search' = [NoSearch EXCEPT !.at = Kind(list[i]), !.test = TRUE,
                             !.providers = Normalized(<<list[i]>>),
                             !.until = Bounded(list[i].time), !.limit = Bounded(list[i].time)]
        PROVE  /\ search' \in Searches /\ search'.at # "idle" /\ ~search'.session
               /\ search'.test /\ search'.at # "next"
    <3> DEFINE kind == Kind(list[i])
               found1 == Normalized(<<list[i]>>)
               its == Bounded(list[i].time)
               s == [NoSearch EXCEPT !.at = kind, !.test = TRUE, !.providers = found1,
                        !.until = its, !.limit = its]
    <3>1. list[i] \in Sites
      <4>1. list \in Seq(Sites)  BY SearchAssumption
      <4> QED  BY <4>1, ElementOfSeq, LenProperties
    <3>2. found1 \in Seq(Sites)
      <4>1. <<list[i]>> \in Seq(Sites)  BY <3>1
      <4> QED  BY <4>1, NormalizedType
    <3>3. its \in Int  BY <3>1, SearchAssumption DEF Bounded, Sites
    <3>4. kind \in {"initialize", "query"}  BY DEF Kind
    <3>5. search' = s  BY <2>3
    <3> HIDE DEF kind, found1, its
    <3>6. s \in Searches /\ s.at = kind /\ s.test /\ ~s.session
      BY <1>3, <3>2, <3>3, <3>4 DEF Searches, Engaged
    <3> HIDE DEF s
    <3> QED  BY <3>4, <3>5, <3>6
  <2> QED  BY <2>1, <2>2, <2>3 DEF BeginSearch, BeginTest
<1>6. ~search'.test => InTurn(search', clock', attempts', found')
  <2> SUFFICES ASSUME ~search'.test  PROVE InTurn(search', clock', attempts', found')
    OBVIOUS
  <2>1. attempts' = <<>> /\ found' = 0 /\ Len(attempts') = 0  BY <1>1, <1>2
  <2>2. Len(search'.providers) \in Nat  BY <1>5, LenProperties DEF Searches
  <2>3. search'.at = "done" => Len(search'.providers) = 0  BY <1>5
  <2> QED  BY <1>5, <2>1, <2>2, <2>3 DEF InTurn, InOrder, Engaged
<1> QED  BY <1>1, <1>2, <1>5, <1>6 DEF SearchInv, OpenSession

\* What a provider that is done leaves behind
LEMMA TriedGrows ==
    ASSUME NEW list \in Seq(Sites), NEW n \in 1 .. Len(list),
           NEW tried \in Seq({"skipped", "success", "failed"}), Len(tried) = n - 1,
           InOrder(list, tried), NEW word \in {"skipped", "success", "failed"},
           word = "skipped" <=> ~Usable(list[n])
    PROVE  LET now == Append(tried, word)
           IN  /\ now \in Seq({"skipped", "success", "failed"})
               /\ Len(now) = n /\ now[n] = word /\ InOrder(list, now)
<1> DEFINE now == Append(tried, word)
<1>1. Len(list) \in Nat /\ n \in Nat  BY LenProperties
<1>2. /\ now \in Seq({"skipped", "success", "failed"}) /\ Len(now) = n /\ now[n] = word
      /\ \A i \in 1 .. n - 1 : now[i] = tried[i]
  <2>1. /\ now \in Seq({"skipped", "success", "failed"})
        /\ Len(now) = Len(tried) + 1 /\ now[Len(tried) + 1] = word
        /\ \A i \in 1 .. Len(tried) : now[i] = tried[i]
    BY AppendProperties
  <2> HIDE DEF now
  <2>2. Len(tried) + 1 = n  BY <1>1
  <2> QED  BY <2>1, <2>2
<1> HIDE DEF now
<1>3. InOrder(list, now)
  <2> SUFFICES ASSUME NEW i \in 1 .. n, i \in 1 .. Len(list)
               PROVE  now[i] = "skipped" <=> ~Usable(list[i])
    BY <1>2 DEF InOrder
  <2>1. CASE i = n  BY <1>2, <2>1
  <2>2. CASE i # n
    <3>1. i \in 1 .. n - 1  BY <1>1, <2>2
    <3>2. tried[i] = "skipped" <=> ~Usable(list[i])  BY <3>1 DEF InOrder
    <3> QED  BY <1>2, <3>1, <3>2
  <2> QED  BY <2>1, <2>2
<1> QED  BY <1>2, <1>3 DEF now

LEMMA PassKeeps == SearchInv /\ PassProvider => SearchInv'
<1> SUFFICES ASSUME SearchInv, PassProvider  PROVE SearchInv'
  OBVIOUS
<1> DEFINE s == [search EXCEPT !.turn = @ + 1]
           list == search.providers
           n == search.turn
<1>1. /\ search \in Searches /\ search.at = "next" /\ n <= Len(list) /\ ~Usable(list[n])
      /\ search' = s /\ attempts' = Append(attempts, "skipped")
      /\ UNCHANGED <<settings, clock, given, deleted, found>>
  BY DEF SearchInv, PassProvider, Provider
<1>2. /\ s \in Searches /\ s.at = "next" /\ s.test = search.test /\ s.providers = list
      /\ s.turn = n + 1 /\ n \in Nat \ {0} /\ list \in Seq(Sites)
  BY <1>1 DEF Searches
<1>3. given \subseteq deleted  BY <1>1 DEF SearchInv, OpenSession
<1>4. attempts' \in Seq({"skipped", "success", "failed"})
  BY <1>1, AppendProperties DEF SearchInv
<1> HIDE DEF s, list, n
<1>5. ~s.test => InTurn(s, clock', attempts', found')
  <2> SUFFICES ASSUME ~search.test  PROVE InTurn(s, clock', attempts', found')
    BY <1>2
  <2>1. /\ InOrder(list, attempts) /\ Len(attempts) = n - 1 /\ found = 0
    BY <1>1 DEF SearchInv, InTurn, list, n
  <2>2. n \in 1 .. Len(list) /\ Len(list) \in Nat  BY <1>1, <1>2, LenProperties
  <2>3. InOrder(list, attempts') /\ Len(attempts') = n
    <3>1. attempts \in Seq({"skipped", "success", "failed"})  BY DEF SearchInv
    <3>2. "skipped" = "skipped" <=> ~Usable(list[n])  BY <1>1
    <3>3. attempts' = Append(attempts, "skipped") /\ list \in Seq(Sites)  BY <1>1, <1>2
    <3> QED  BY <2>1, <2>2, <3>1, <3>2, <3>3, TriedGrows
  <2>4. found' = 0 /\ s.turn - 1 = n /\ s.turn <= Len(list) + 1  BY <1>1, <1>2, <2>1, <2>2
  <2> QED  BY <1>2, <2>3, <2>4 DEF InTurn, Engaged
<1> QED  BY <1>1, <1>2, <1>3, <1>4, <1>5 DEF SearchInv, OpenSession

\* A step within the providers' turns
LEMMA TurnMoves ==
    ASSUME SearchInv, NEW s \in Searches, search' = s, s.test = search.test,
           s.providers = search.providers, s.turn = search.turn, s.until = search.until,
           search.at \in Engaged \cup {"next"}, s.at \in Engaged,
           search.at = "next" => Usable(Provider) /\ search.turn <= Len(search.providers),
           UNCHANGED <<settings, attempts, found>>, clock' \in Nat,
           s.at \in {"initialize", "query"} => ~s.session,
           given' \subseteq deleted' \cup OpenSession(s)
    PROVE  SearchInv'
<1>1. ~s.test => InTurn(s, clock', attempts', found')
  <2> SUFFICES ASSUME ~search.test  PROVE InTurn(s, clock', attempts', found')
    OBVIOUS
  <2>1. InTurn(search, clock, attempts, found)  BY DEF SearchInv
  <2>2. Len(search.providers) \in Nat /\ search.turn \in Nat \ {0}
    BY LenProperties DEF SearchInv, Searches
  <2>3. s.turn \in 1 .. Len(s.providers) /\ Usable(s.providers[s.turn])
    BY <2>1, <2>2 DEF InTurn, Provider
  <2>4. Len(attempts) = s.turn - 1 /\ found = 0 /\ InOrder(s.providers, attempts)
    BY <2>1 DEF InTurn
  <2> QED  BY <2>3, <2>4 DEF InTurn, Engaged
<1>2. s.at # "idle"  BY DEF Engaged
<1> QED  BY <1>1, <1>2 DEF SearchInv

LEMMA AskProviderKeeps == SearchInv /\ AskProvider => SearchInv'
<1> SUFFICES ASSUME SearchInv, AskProvider  PROVE SearchInv'
  OBVIOUS
<1> DEFINE kind == Kind(Provider)
           its == Earlier(clock + Provider.time, search.until)
           s == [search EXCEPT !.at = kind, !.session = FALSE, !.good = FALSE, !.limit = its]
<1>1. /\ search \in Searches /\ search.at = "next" /\ search.turn <= Len(search.providers)
      /\ Usable(Provider) /\ search' = s /\ clock \in Nat
      /\ UNCHANGED <<settings, clock, attempts, given, deleted, found>>
  BY DEF SearchInv, AskProvider
<1>2. kind \in {"initialize", "query"}  BY DEF Kind
<1>3. its \in Int
  <2>1. search.turn \in 1 .. Len(search.providers) /\ search.providers \in Seq(Sites)
    BY <1>1, LenProperties DEF Searches
  <2>2. Provider \in Sites  BY <2>1, ElementOfSeq DEF Provider
  <2> QED  BY <1>1, <2>2 DEF Earlier, Sites, Searches
<1> HIDE DEF kind, its
<1>4. /\ s \in Searches /\ s.at = kind /\ ~s.session /\ s.test = search.test
      /\ s.providers = search.providers /\ s.turn = search.turn /\ s.until = search.until
  BY <1>1, <1>2, <1>3 DEF Searches, Engaged
<1> HIDE DEF s
<1>5. given \subseteq deleted  BY <1>1 DEF SearchInv, OpenSession
<1> QED  BY <1>1, <1>2, <1>4, <1>5, TurnMoves DEF Engaged

\* One provider, asked, and its session
LEMMA RequestKeeps ==
    ASSUME SearchInv,
           Initialize \/ Announce \/ Brought \/ RequestFails \/ CloseSession \/ RequestTakesTime
    PROVE  SearchInv'
<1>1. /\ search \in Searches /\ search.at \in Engaged /\ search.at # "judge" /\ clock \in Nat
      /\ UNCHANGED <<settings, attempts, found>>
      /\ given \subseteq deleted \cup OpenSession(search)
      /\ search.at \in {"initialize", "query"} => ~search.session
  <2>1. search.at \in {"initialize", "announce", "call", "query", "close"}
    BY DEF Initialize, Announce, Brought, RequestFails, CloseSession, RequestTakesTime
  <2>2. UNCHANGED <<settings, attempts, found>>
    BY DEF Initialize, Announce, Brought, RequestFails, CloseSession, RequestTakesTime
  <2> QED  BY <2>1, <2>2 DEF SearchInv, Engaged
<1>2. clock' \in Nat
  <2>1. CASE CloseSession
    <3>1. CloseTime \in Nat  BY SearchAssumption
    <3>2. PICK d \in 0 .. CloseTime : clock' = clock + d  BY <2>1 DEF CloseSession
    <3> QED  BY <1>1, <3>1, <3>2
  <2>2. CASE RequestTakesTime  BY <1>1, <2>2 DEF RequestTakesTime
  <2>3. CASE Initialize \/ Announce \/ Brought \/ RequestFails
    BY <1>1, <2>3 DEF Initialize, Announce, Brought, RequestFails
  <2> QED  BY <2>1, <2>2, <2>3
<1>3. ASSUME NEW at \in {"announce", "call", "close", "judge"}, NEW session \in BOOLEAN,
             NEW good \in BOOLEAN,
             search' = [search EXCEPT !.at = at, !.session = session, !.good = good],
             given' \subseteq deleted' \cup
                 (IF session /\ at # "judge" THEN {search.turn} ELSE {})
      PROVE  SearchInv'
  <2> DEFINE s == [search EXCEPT !.at = at, !.session = session, !.good = good]
  <2>1. /\ s \in Searches /\ s.at = at /\ s.session = session /\ s.test = search.test
        /\ s.providers = search.providers /\ s.turn = search.turn /\ s.until = search.until
    BY <1>1, <1>3 DEF Searches, Engaged
  <2>2. search' = s  BY <1>3
  <2> HIDE DEF s
  <2>3. given' \subseteq deleted' \cup OpenSession(s)  BY <1>3, <2>1 DEF OpenSession
  <2> QED  BY <1>1, <1>2, <1>3, <2>1, <2>2, <2>3, TurnMoves DEF Engaged
<1>4. search.session \in BOOLEAN /\ search.good \in BOOLEAN  BY <1>1 DEF Searches
<1>5. CASE Initialize
  <2>1. PICK session \in BOOLEAN :
           /\ search' = [search EXCEPT !.at = "announce", !.session = session]
           /\ given' = IF session THEN given \cup {search.turn} ELSE given
    BY <1>5 DEF Initialize
  <2>2. search' = [search EXCEPT !.at = "announce", !.session = session, !.good = search.good]
    BY <1>1, <2>1 DEF Searches
  <2>3. given \subseteq deleted /\ deleted' = deleted
    BY <1>1, <1>5 DEF Initialize, OpenSession
  <2> QED  BY <1>3, <1>4, <2>1, <2>2, <2>3
<1>6. CASE Announce
  <2>1. /\ search' = [search EXCEPT !.at = "call", !.session = search.session,
                         !.good = search.good]
        /\ UNCHANGED <<given, deleted>> /\ search.at = "announce"
    BY <1>1, <1>6 DEF Announce, SearchGoes, Searches
  <2> QED  BY <1>1, <1>3, <1>4, <2>1 DEF OpenSession
<1>7. CASE Brought \/ RequestFails
  <2>1. AfterAsking \in {"close", "judge"} /\ (AfterAsking = "judge" <=> ~search.session)
    BY <1>4 DEF AfterAsking
  <2>2. PICK good \in BOOLEAN :
           search' = [search EXCEPT !.at = AfterAsking, !.session = search.session, !.good = good]
    <3>1. CASE Brought
      <4>1. search' = [search EXCEPT !.at = AfterAsking, !.good = TRUE]  BY <3>1 DEF Brought
      <4>2. search' = [search EXCEPT !.at = AfterAsking, !.session = search.session,
                          !.good = TRUE]
        BY <1>1, <4>1 DEF Searches
      <4> QED  BY <4>2
    <3>2. CASE RequestFails
      <4>1. search' = [search EXCEPT !.at = AfterAsking]  BY <3>2 DEF RequestFails
      <4>2. search' = [search EXCEPT !.at = AfterAsking, !.session = search.session,
                          !.good = search.good]
        BY <1>1, <4>1 DEF Searches
      <4> QED  BY <1>4, <4>2
    <3> QED  BY <1>7, <3>1, <3>2
  <2>3. UNCHANGED <<given, deleted>>  BY <1>7 DEF Brought, RequestFails
  <2>4. given' \subseteq deleted' \cup
            (IF search.session /\ AfterAsking # "judge" THEN {search.turn} ELSE {})
    <3>1. CASE search.session  BY <1>1, <2>1, <2>3, <3>1 DEF OpenSession
    <3>2. CASE ~search.session  BY <1>1, <2>1, <2>3, <3>2 DEF OpenSession
    <3> QED  BY <3>1, <3>2
  <2> HIDE DEF AfterAsking
  <2> QED  BY <1>3, <1>4, <2>1, <2>2, <2>4
<1>8. CASE CloseSession
  <2>1. /\ search' = [search EXCEPT !.at = "judge", !.session = search.session,
                         !.good = search.good]
        /\ given' = given /\ deleted' = deleted \cup {search.turn}
    BY <1>1, <1>8 DEF CloseSession, SearchGoes, Searches
  <2>2. given' \subseteq deleted'  BY <1>1, <2>1 DEF OpenSession
  <2> QED  BY <1>3, <1>4, <2>1, <2>2
<1>9. CASE RequestTakesTime
  <2>1. UNCHANGED <<search, given, deleted>>  BY <1>9 DEF RequestTakesTime
  <2>2. search.at # "next"  BY <1>1 DEF Engaged
  <2>3. given' \subseteq deleted' \cup OpenSession(search)  BY <1>1, <2>1
  <2> QED  BY <1>1, <1>2, <2>1, <2>2, <2>3, TurnMoves
<1> QED  BY <1>5, <1>6, <1>7, <1>8, <1>9

LEMMA JudgeKeeps == SearchInv /\ (Judge \/ NoMore) => SearchInv'
<1> SUFFICES ASSUME SearchInv, Judge \/ NoMore  PROVE SearchInv'
  OBVIOUS
<1> DEFINE list == search.providers
           n == search.turn
<1>1. /\ search \in Searches /\ search.at \in {"judge", "next"} /\ clock \in Nat /\ found \in Nat
      /\ attempts \in Seq({"skipped", "success", "failed"})
      /\ UNCHANGED <<settings, clock, given, deleted>>
  BY DEF SearchInv, Judge, NoMore
<1>2. /\ list \in Seq(Sites) /\ n \in Nat \ {0} /\ Len(list) \in Nat
  BY <1>1, LenProperties DEF Searches
<1>3. given \subseteq deleted  BY <1>1 DEF SearchInv, OpenSession
<1>4. ASSUME NEW s \in Searches, search' = s, s.at \in {"done", "next"}, s.test = search.test,
             found' \in Nat, attempts' \in Seq({"skipped", "success", "failed"}),
             ~s.test => InTurn(s, clock', attempts', found')
      PROVE  SearchInv'
  BY <1>1, <1>3, <1>4 DEF SearchInv, OpenSession
<1> DEFINE last == [search EXCEPT !.at = "done"]
           further == [search EXCEPT !.at = "next", !.turn = @ + 1]
<1>5. /\ last \in Searches /\ last.at = "done" /\ last.test = search.test
      /\ last.providers = list /\ last.until = search.until
      /\ further \in Searches /\ further.at = "next" /\ further.test = search.test
      /\ further.providers = list /\ further.turn = n + 1
  <2>1. /\ last \in Searches /\ last.at = "done" /\ last.test = search.test
        /\ last.providers = list /\ last.until = search.until
    BY <1>1 DEF Searches
  <2>2. n + 1 \in Nat \ {0} /\ further = [search EXCEPT !.at = "next", !.turn = n + 1]
    BY <1>2
  <2> HIDE DEF n
  <2>3. /\ further \in Searches /\ further.at = "next" /\ further.test = search.test
        /\ further.providers = list /\ further.turn = n + 1
    <3> HIDE DEF further
    <3> QED  BY <1>1, <2>2 DEF Searches
  <2> QED  BY <2>1, <2>3
<1>6. InTurn(search, clock, attempts, found) /\ search.at = "judge" =>
          /\ n \in 1 .. Len(list) /\ Usable(list[n]) /\ Len(attempts) = n - 1
          /\ found = 0 /\ InOrder(list, attempts)
  <2> SUFFICES ASSUME InTurn(search, clock, attempts, found), search.at = "judge"
               PROVE  /\ n \in 1 .. Len(list) /\ Usable(list[n]) /\ Len(attempts) = n - 1
                      /\ found = 0 /\ InOrder(list, attempts)
    OBVIOUS
  <2>1. search.at \in Engaged  BY DEF Engaged
  <2> QED  BY <2>1 DEF InTurn
<1> HIDE DEF last, further
<1>7. CASE NoMore
  <2>1. search' = last /\ attempts' = attempts /\ found' = found /\ n > Len(list)
        /\ search.at = "next"
    BY <1>7 DEF NoMore, SearchGoes, last
  <2>2. ~search.test => InTurn(last, clock', attempts', found')
    <3> SUFFICES ASSUME ~search.test  PROVE InTurn(last, clock', attempts', found')
      OBVIOUS
    <3>1. InOrder(list, attempts) /\ Len(attempts) = n - 1 /\ found = 0
      BY <2>1 DEF SearchInv, InTurn
    <3>2. Len(attempts) >= Len(list)  BY <1>2, <2>1, <3>1
    <3> QED  BY <1>5, <2>1, <3>1, <3>2 DEF InTurn, Engaged
  <2> QED  BY <1>1, <1>4, <1>5, <2>1, <2>2
<1>8. CASE Judge /\ search.good
  <2>1. search' = last /\ attempts' = Append(attempts, "success") /\ found' = n
        /\ search.at = "judge"
    BY <1>8 DEF Judge, SearchGoes, last
  <2>2. attempts' \in Seq({"skipped", "success", "failed"})
    BY <1>1, <2>1, AppendProperties
  <2>3. ~search.test => InTurn(last, clock', attempts', found')
    <3> SUFFICES ASSUME ~search.test  PROVE InTurn(last, clock', attempts', found')
      OBVIOUS
    <3>1. /\ n \in 1 .. Len(list) /\ Usable(list[n]) /\ Len(attempts) = n - 1
          /\ InOrder(list, attempts)
      BY <1>6, <2>1 DEF SearchInv
    <3> HIDE DEF list, n
    <3>2. Len(attempts') = n /\ attempts'[n] = "success" /\ InOrder(list, attempts')
      BY <1>1, <1>2, <2>1, <3>1, TriedGrows
    <3> QED  BY <1>2, <1>5, <2>1, <3>2 DEF InTurn, Engaged
  <2> QED  BY <1>2, <1>4, <1>5, <2>1, <2>2, <2>3
<1>9. CASE Judge /\ ~search.good
  <2>1. /\ attempts' = Append(attempts, "failed") /\ found' = found /\ search.at = "judge"
        /\ search' = IF TimeIsUp \/ search.test THEN last ELSE further
    BY <1>9 DEF Judge, last, further
  <2>2. attempts' \in Seq({"skipped", "success", "failed"})
    BY <1>1, <2>1, AppendProperties
  <2>3. ~search.test => /\ n \in 1 .. Len(list) /\ Len(attempts') = n /\ found' = 0
                        /\ InOrder(list, attempts')
    <3> SUFFICES ASSUME ~search.test
                 PROVE  /\ n \in 1 .. Len(list) /\ Len(attempts') = n /\ found' = 0
                        /\ InOrder(list, attempts')
      OBVIOUS
    <3>1. /\ n \in 1 .. Len(list) /\ Usable(list[n]) /\ Len(attempts) = n - 1
          /\ InOrder(list, attempts) /\ found = 0
      BY <1>6, <2>1 DEF SearchInv
    <3> HIDE DEF list, n
    <3> QED  BY <1>1, <1>2, <2>1, <3>1, TriedGrows
  <2> HIDE DEF list, n
  <2>4. CASE TimeIsUp \/ search.test
    <3>1. search' = last  BY <2>1, <2>4
    <3>2. ~search.test => clock' >= last.until  BY <1>1, <1>5, <2>4 DEF TimeIsUp
    <3>3. ~search.test => InTurn(last, clock', attempts', found')
      BY <1>5, <2>3, <3>2 DEF InTurn, Engaged
    <3> QED  BY <1>1, <1>4, <1>5, <2>1, <2>2, <3>1, <3>3
  <2>5. CASE ~(TimeIsUp \/ search.test)
    <3>1. search' = further  BY <2>1, <2>5
    <3>2. ~search.test => InTurn(further, clock', attempts', found')
      <4> SUFFICES ASSUME ~search.test  PROVE InTurn(further, clock', attempts', found')
        OBVIOUS
      <4>1. further.turn <= Len(list) + 1 /\ Len(attempts') = further.turn - 1
        BY <1>2, <1>5, <2>3
      <4> QED  BY <1>5, <2>3, <4>1 DEF InTurn, Engaged
    <3> QED  BY <1>1, <1>4, <1>5, <2>1, <2>2, <3>1, <3>2
  <2> QED  BY <2>4, <2>5
<1> QED  BY <1>7, <1>8, <1>9

LEMMA SearchStep == SearchInv /\ [SearchNext]_searchVars => SearchInv'
<1> SUFFICES ASSUME SearchInv, [SearchNext]_searchVars  PROVE SearchInv'
  OBVIOUS
<1>1. CASE UNCHANGED searchVars
  BY <1>1 DEF searchVars, SearchInv
<1>2. CASE SearchNext
  BY <1>1, <1>2, SavingKeeps, BeginningKeeps, PassKeeps, AskProviderKeeps, RequestKeeps, JudgeKeeps
  DEF SearchNext
<1> QED  BY <1>1, <1>2

-----------------------------------------------------------------------------
(* The search: theorems. *)

\* The invariant of the search (web_search.search): the providers so far were
\* asked in their order or passed last because they could not be asked, and
\* only the one at work may have a session open.
THEOREM SearchIsSound == SearchInit /\ [][SearchNext]_searchVars => []SearchInv
<1> QED  BY SearchBegins, SearchStep, PTL

\* A search asks its providers in their order until one has something or its
\* time is up, and leaves no session open: for any settings, times and changes
\* of the settings meanwhile.
THEOREM SearchIsSafe == SearchInit /\ [][SearchNext]_searchVars => []SearchSafe
<1>1. ASSUME SearchInv  PROVE SearchSafe
  <2>1. SearchFallsBack
    <3> SUFFICES ASSUME search.at = "done", ~search.test  PROVE SearchFallsBack
      BY DEF SearchFallsBack
    <3> DEFINE list == search.providers
    <3>1. /\ InOrder(list, attempts)
          /\ Len(attempts) >= Len(list) \/ found # 0 \/ clock >= search.until
          /\ found # 0 => found = Len(attempts) /\ attempts[found] = "success"
      BY <1>1 DEF SearchInv, InTurn
    <3>2. Len(attempts) \in Nat /\ Len(list) \in Nat /\ DOMAIN list = 1 .. Len(list)
      BY <1>1, LenProperties DEF SearchInv, Searches
    <3>3. ASSUME NEW i \in 1 .. Len(list)
          PROVE  \/ i <= Len(attempts) /\ (attempts[i] = "skipped" <=> ~Usable(list[i]))
                 \/ i > Len(attempts) /\ (found # 0 \/ clock >= search.until)
      <4>1. CASE i <= Len(attempts)
        <5>1. i \in 1 .. Len(attempts)  BY <3>2, <4>1
        <5> QED  BY <3>1, <4>1, <5>1 DEF InOrder
      <4>2. CASE ~(i <= Len(attempts))
        <5>1. i > Len(attempts) /\ ~(Len(attempts) >= Len(list))  BY <3>2, <4>2
        <5> QED  BY <3>1, <5>1
      <4> QED  BY <4>1, <4>2
    <3> QED  BY <3>1, <3>2, <3>3 DEF SearchFallsBack
  <2>2. SessionsAreClosed  BY <1>1 DEF SearchInv, OpenSession, SessionsAreClosed
  <2> QED  BY <2>1, <2>2 DEF SearchSafe
<1> QED  BY <1>1, SearchIsSound, PTL

-----------------------------------------------------------------------------
(* The servers: the invariant. *)

Adds == asking.method \in {"initialize", "list"}

\* A child process that was started is known to the registry, or is the one
\* that is being added.
Tended ==
    \A s \in Names : proc[s] \in {"up", "exited"} =>
        stage # "over" /\ (s \in closers \/ (Adds /\ s = Adding))

ServersInv ==
    /\ building \in Nat /\ proc \in [Names -> {"idle", "up", "exited", "closed"}]
    /\ stage = "build" => building \in 1 .. Len(Servers)
    /\ \/ asking = NoAsking
       \/ asking.method = "call" /\ stage = "use"
       \/ Adds /\ stage = "build"
    /\ answered[1] = answered[2]
    /\ ~refusal => Tended

-----------------------------------------------------------------------------
(* The servers: each step. *)

LEMMA AddingIsServer == ServersInv /\ stage = "build" => Adding \in Names
<1> SUFFICES ASSUME ServersInv, stage = "build"  PROVE Adding \in Names
  OBVIOUS
<1>1. Servers \in Seq(Range(Servers)) /\ building \in 1 .. Len(Servers)
  BY ServersAssumption DEF ServersInv
<1> QED  BY <1>1, ElementOfSeq DEF Adding, Names

LEMMA NoneIsAdded == NoAsking.method = "none"
BY DEF NoAsking

LEMMA ServersBegin == ServersInit => ServersInv
<1> SUFFICES ASSUME ServersInit  PROVE ServersInv
  OBVIOUS
<1>1. Servers \in Seq(Range(Servers))  BY ServersAssumption
<1>2. Servers # <<>> => 1 \in 1 .. Len(Servers)  BY <1>1, EmptySeq, LenProperties
<1>3. /\ building = 1 /\ asking = NoAsking /\ answered = <<0, 0>>
      /\ stage = "build" => Servers # <<>>
      /\ proc = [s \in Names |-> "idle"]
  BY DEF ServersInit
<1>4. Tended  BY <1>3 DEF Tended
<1> QED  BY <1>2, <1>3, <1>4 DEF ServersInv

LEMMA ServerStepKeeps ==
    ASSUME ServersInv, NEW s \in Names,
           ServerAnswers(s) \/ ServerNotifies(s) \/ ServerExits(s)
    PROVE  ServersInv'
<1>1. UNCHANGED <<stage, building, asking, tools, closers, refusal, answered>>
  BY DEF ServerAnswers, ServerNotifies, ServerExits
<1>2. \/ proc' = proc
      \/ proc[s] = "up" /\ proc' = [proc EXCEPT ![s] = "exited"]
  BY DEF ServerAnswers, ServerNotifies, ServerExits
<1>3. /\ proc' \in [Names -> {"idle", "up", "exited", "closed"}]
      /\ \A t \in Names : proc'[t] \in {"up", "exited"} => proc[t] \in {"up", "exited"}
  <2>1. CASE proc' = proc  BY <2>1 DEF ServersInv
  <2>2. CASE proc[s] = "up" /\ proc' = [proc EXCEPT ![s] = "exited"]
    BY <2>2 DEF ServersInv
  <2> QED  BY <1>2, <2>1, <2>2
<1> QED  BY <1>1, <1>3 DEF ServersInv, Tended, Adds, Adding

\* A server that is closed is tended by nobody any more.
LEMMA ClosedType ==
    ASSUME ServersInv, NEW ss
    PROVE  /\ Closed(ss) \in [Names -> {"idle", "up", "exited", "closed"}]
           /\ \A s \in Names : Closed(ss)[s] \in {"up", "exited"} =>
                 proc[s] \in {"up", "exited"} /\ s \notin ss
BY DEF Closed, ServersInv

\* The next server, or none
LEMMA AdvanceMoves ==
    ASSUME ServersInv, stage = "build", Advance
    PROVE  /\ building' \in Nat /\ stage' \in {"build", "use"}
           /\ stage' = "build" => building' \in 1 .. Len(Servers)
<1>1. building \in 1 .. Len(Servers) /\ building \in Nat  BY DEF ServersInv
<1>2. Len(Servers) \in Nat  BY ServersAssumption, LenProperties
<1> QED  BY <1>1, <1>2 DEF Advance

LEMMA GoWithoutKeeps ==
    ASSUME ServersInv, stage = "build", GoWithout(Adding), asking' = NoAsking,
           answered'[1] = answered'[2],
           proc' \in [Names -> {"idle", "up", "exited", "closed"}],
           ~refusal => \A s \in Names : proc'[s] \in {"up", "exited"} => s \in closers
    PROVE  ServersInv'
<1>1. CASE Advance /\ UNCHANGED <<tools, closers, refusal>>
  <2>1. ~refusal' => Tended'  BY <1>1, AdvanceMoves DEF Tended
  <2> QED  BY <1>1, <2>1, AdvanceMoves DEF ServersInv
<1>2. CASE stage' = "over" /\ refusal' = TRUE /\ UNCHANGED building
  BY <1>2 DEF ServersInv
<1> QED  BY <1>1, <1>2 DEF GoWithout

LEMMA StartingKeeps == ServersInv /\ (StartFails \/ StartServer) => ServersInv'
<1> SUFFICES ASSUME ServersInv, StartFails \/ StartServer  PROVE ServersInv'
  OBVIOUS
<1>1. stage = "build" /\ asking = NoAsking /\ ~Adds
  BY NoneIsAdded DEF StartFails, StartServer, Adds
<1>2. ~refusal => \A s \in Names : proc[s] \in {"up", "exited"} => s \in closers
  BY <1>1 DEF ServersInv, Tended
<1>3. CASE StartFails
  <2>1. GoWithout(Adding) /\ UNCHANGED <<proc, asking, answered>>
    BY <1>3 DEF StartFails, clientState
  <2> QED  BY <1>1, <1>2, <2>1, GoWithoutKeeps DEF ServersInv
<1>4. CASE StartServer
  <2>1. /\ proc' = [proc EXCEPT ![Adding] = "up"] /\ asking'.method = "initialize"
        /\ UNCHANGED <<stage, building, closers, refusal, answered>>
    BY <1>4 DEF StartServer
  <2>2. proc' \in [Names -> {"idle", "up", "exited", "closed"}]  BY <2>1 DEF ServersInv
  <2>3. Adds' /\ Adding' = Adding  BY <2>1 DEF Adds, Adding
  <2>4. ~refusal' => Tended'
    <3> SUFFICES ASSUME ~refusal, NEW s \in Names, proc'[s] \in {"up", "exited"}
                 PROVE  stage' # "over" /\ (s \in closers' \/ (Adds' /\ s = Adding'))
      BY <2>1 DEF Tended
    <3>1. CASE s = Adding  BY <1>1, <2>1, <2>3, <3>1
    <3>2. CASE s # Adding
      <4>1. proc'[s] = proc[s]  BY <2>1, <3>2 DEF ServersInv
      <4> QED  BY <1>1, <1>2, <2>1, <4>1
    <3> QED  BY <3>1, <3>2
  <2> QED  BY <1>1, <2>1, <2>2, <2>3, <2>4 DEF ServersInv
<1> QED  BY <1>3, <1>4

\* An answer, or none, to what was asked of the server that is being added
LEMMA AnswersKeep == ServersInv /\ (Skip \/ Initialized \/ Listed \/ ServerFails) => ServersInv'
<1> SUFFICES ASSUME ServersInv, Skip \/ Initialized \/ Listed \/ ServerFails
             PROVE  ServersInv'
  OBVIOUS
<1>1. CASE Skip
  <2>1. UNCHANGED <<stage, building, proc, asking, closers, refusal, answered>>
    BY <1>1 DEF Skip
  <2> QED  BY <2>1 DEF ServersInv, Tended, Adds, Adding
<1>2. TakesAnswer \/ Unanswered => answered'[1] = answered'[2]
  BY DEF TakesAnswer, Unanswered, Matches, ServersInv
<1>3. Adds => stage = "build"  BY NoneIsAdded DEF ServersInv, Adds
<1>4. ~refusal => \A s \in Names : proc[s] \in {"up", "exited"} =>
          s \in closers \/ s = Adding
  BY DEF ServersInv, Tended
<1>5. ASSUME asking'.method = "list", Adds, UNCHANGED <<stage, building, proc, closers, refusal>>,
             TakesAnswer
      PROVE  ServersInv'
  <2>1. Adds' /\ Adding' = Adding  BY <1>5 DEF Adds, Adding
  <2>2. ~refusal' => Tended'  BY <1>5, <2>1 DEF ServersInv, Tended
  <2> QED  BY <1>2, <1>3, <1>5, <2>1, <2>2 DEF ServersInv
<1>6. CASE Initialized
  BY <1>5, <1>6 DEF Initialized, Asking, Adds
<1>7. CASE Listed
  <2>1. Adds /\ TakesAnswer /\ refusal' = refusal  BY <1>7 DEF Listed, Adds
  <2>2. stage = "build" /\ answered'[1] = answered'[2]  BY <1>2, <1>3, <2>1
  <2>3. CASE Asking(asking.server, "list") /\ UNCHANGED <<stage, building, proc, tools, closers>>
    BY <1>5, <2>1, <2>3 DEF Asking
  <2>4. ASSUME asking' = NoAsking, Advance,
               proc' \in [Names -> {"idle", "up", "exited", "closed"}],
               ~refusal => \A s \in Names : proc'[s] \in {"up", "exited"} => s \in closers'
        PROVE  ServersInv'
    <3>1. ~refusal' => Tended'  BY <2>1, <2>2, <2>4, AdvanceMoves DEF Tended
    <3> QED  BY <2>2, <2>4, <3>1, AdvanceMoves DEF ServersInv
  <2>5. CASE asking' = NoAsking /\ Advance /\ closers' = closers \cup {Adding} /\ proc' = proc
    BY <1>4, <2>4, <2>5 DEF ServersInv
  <2>6. CASE asking' = NoAsking /\ Advance /\ proc' = Closed({Adding}) /\ closers' = closers
    BY <1>4, <2>4, <2>6, ClosedType
  <2> QED  BY <1>7, <2>3, <2>5, <2>6 DEF Listed
<1>8. CASE ServerFails
  <2>1. /\ Adds /\ asking' = NoAsking /\ proc' = Closed({Adding}) /\ GoWithout(Adding)
        /\ answered'[1] = answered'[2]
    BY <1>2, <1>8 DEF ServerFails, Adds
  <2>2. /\ proc' \in [Names -> {"idle", "up", "exited", "closed"}]
        /\ ~refusal => \A s \in Names : proc'[s] \in {"up", "exited"} => s \in closers
    BY <1>4, <2>1, ClosedType
  <2> QED  BY <1>3, <2>1, <2>2, GoWithoutKeeps
<1> QED  BY <1>1, <1>6, <1>7, <1>8

LEMMA UseKeeps ==
    ASSUME ServersInv, Retain \/ (\E s \in tools : Call(s)) \/ CallEnds \/ CloseRegistry
    PROVE  ServersInv'
<1>1. ~Adds /\ stage = "use" /\ building' = building /\ closers' = closers /\ refusal' = refusal
  BY NoneIsAdded DEF ServersInv, Adds, Retain, Call, CallEnds, CloseRegistry
<1>2. answered'[1] = answered'[2]
  BY DEF Retain, Call, CallEnds, CloseRegistry, TakesAnswer, Unanswered, Matches, ServersInv
<1>3. ~refusal => \A s \in Names : proc[s] \in {"up", "exited"} => s \in closers
  BY <1>1 DEF ServersInv, Tended
<1>4. CASE stage' = stage /\ proc' = proc
  <2>1. asking' = NoAsking \/ asking'.method = "call"
    BY <1>1, <1>4 DEF ServersInv, Retain, Call, CallEnds, CloseRegistry, Asking
  <2>2. ~refusal' => Tended'  BY <1>1, <1>3, <1>4 DEF Tended
  <2> QED  BY <1>1, <1>2, <1>4, <2>1, <2>2 DEF ServersInv
<1>5. CASE CloseRegistry
  <2>1. stage' = "over" /\ asking' = NoAsking /\ proc' = Closed(closers)
    BY <1>5 DEF CloseRegistry, CloseAllServers
  <2>2. ~refusal => \A s \in Names : ~(proc'[s] \in {"up", "exited"})
    BY <1>3, <2>1, ClosedType
  <2>3. ~refusal' => Tended'  BY <1>1, <2>2 DEF Tended
  <2> QED  BY <1>1, <1>2, <2>1, <2>3, ClosedType DEF ServersInv
<1> QED  BY <1>4, <1>5 DEF Retain, clientState, Call, CallEnds

LEMMA ServersStep == ServersInv /\ [ServersNext]_serverVars => ServersInv'
<1> SUFFICES ASSUME ServersInv, [ServersNext]_serverVars  PROVE ServersInv'
  OBVIOUS
<1>1. CASE UNCHANGED serverVars
  BY <1>1 DEF serverVars, ServersInv, Tended, Adds, Adding
<1>2. CASE ServersNext
  BY <1>1, <1>2, ServerStepKeeps, StartingKeeps, AnswersKeep, UseKeeps DEF ServersNext
<1> QED  BY <1>1, <1>2

-----------------------------------------------------------------------------
(* The servers: theorems. *)

\* The invariant of the MCP servers: a child process that runs is one the
\* registry closes, or the one that is being added.
THEOREM ServersAreSound == ServersInit /\ [][ServersNext]_serverVars => []ServersInv
<1> QED  BY ServersBegin, ServersStep, PTL

\* Requests get their own answers, and every child process is ended when the
\* answer is over, unless a required server failed: for any servers, lengths of
\* their channels and numbers of requests.
THEOREM ServersAreSafe == ServersInit /\ [][ServersNext]_serverVars => []ServersSafe
<1>1. ASSUME ServersInv  PROVE ServersSafe
  BY <1>1 DEF ServersInv, Tended, ServersSafe, AnswerIsOwn, ServersEnd
<1> QED  BY <1>1, ServersAreSound, PTL

-----------------------------------------------------------------------------
(* The page: the invariant. *)

Locations == Urls \cup {NoUrl, First, Error}
Spots == {"launch", "setup", "top", "wait", "probe", "capture", "finish", "done"}
Progressed == {"loading", "interactive", "complete"}

Loops == [at : Spots, deadline : Nat, navigation : Int, polled : Nat, started : Nat, from : Nat,
          version : Nat]

Trackers == [navigated : Nat, network : Nat, loading : BOOLEAN, pending : {0, 1}, blocked : BOOLEAN]

RenderTyped ==
    /\ time \in Nat /\ moved \in Nat /\ slow \in Nat /\ moved <= time
    /\ page \in [url : Locations, version : Nat, ready : Progressed] /\ paused \in Locations
    /\ tracker \in Trackers
    /\ loop \in Loops
    /\ readiness \in [url : Locations, version : Nat, ready : Progressed \cup {"unseen"}, since : Nat]

\* The first turn of the loop puts the deadline within the hardest one, and the
\* loop waits for a tick only before it.  What passes otherwise is counted.
OnTime ==
    /\ loop.polled <= time
    /\ loop.navigation >= 0 => loop.deadline <= Hardest
    /\ loop.at \in {"launch", "setup"} => time <= slow
    /\ loop.at = "wait" => time <= Hardest /\ (time = loop.polled => time < Hardest)
    /\ loop.at # "done" => time <= Hardest + slow

\* The page is never behind what was seen of it, and of one version it only
\* gets further.
GetsFurther ==
    /\ readiness.version <= page.version
    /\ readiness.version = page.version =>
          /\ page.ready = "loading" => readiness.ready \in {"unseen", "loading"}
          /\ page.ready = "interactive" => readiness.ready # "complete"

\* A page that is as it was seen has not moved since.
NotMoved == ~Changed => moved <= readiness.since

\* What is decided and returned
DecidedStill == decision.complete => decision.still >= Stability
ReturnsDecision ==
    rendered.kind = "page" => loop.at = "done" /\ (rendered.stable => decision.complete)

RenderInv == RenderTyped /\ OnTime /\ GetsFurther /\ NotMoved /\ DecidedStill /\ ReturnsDecision

-----------------------------------------------------------------------------
(* The page: proofs. *)

LEMMA RenderConstants ==
    /\ Stability \in Nat /\ Stability > 0 /\ PageTimeout \in Nat /\ Hardest \in Nat /\ Hardest > 0
    /\ Refused \subseteq Urls
<1> QED  BY RenderAssumption DEF RenderAssumption

LEMMA RenderBegins == RenderInit => RenderInv
<1> QED
  BY RenderConstants
  DEF RenderInit, RenderInv, RenderTyped, OnTime, GetsFurther, NotMoved, Changed, DecidedStill,
      ReturnsDecision, Locations, Spots, Loops, Trackers,
      Progressed, NoDecision

\* The loop elsewhere
LEMMA LoopElsewhere ==
    ASSUME RenderTyped, NEW where \in Spots
    PROVE  /\ LoopAt(where) \in Loops /\ LoopAt(where).at = where
           /\ LoopAt(where).deadline = loop.deadline /\ LoopAt(where).navigation = loop.navigation
           /\ LoopAt(where).polled = loop.polled
<1>1. loop \in Loops /\ page.version \in Nat /\ time \in Nat
  BY DEF RenderTyped
<1>2. ASSUME NEW t \in Nat, NEW v \in Nat
      PROVE  LET l == [loop EXCEPT !.at = where, !.from = t, !.version = v] IN
             /\ l \in Loops /\ l.at = where /\ l.deadline = loop.deadline
             /\ l.navigation = loop.navigation /\ l.polled = loop.polled
  BY <1>1 DEF Loops
<1>3. \E t \in Nat, v \in Nat : LoopAt(where) = [loop EXCEPT !.at = where, !.from = t, !.version = v]
  <2>1. 0 \in Nat
    OBVIOUS
  <2>2. CASE where \in {"probe", "capture", "finish"}
    <3>1. LoopAt(where) = [loop EXCEPT !.at = where, !.from = time, !.version = page.version]
      BY <2>2, Zenon DEF LoopAt
    <3> QED  BY <1>1, <3>1, Zenon
  <2>3. CASE where \notin {"probe", "capture", "finish"}
    <3>1. LoopAt(where) = [loop EXCEPT !.at = where, !.from = 0, !.version = 0]
      BY <2>3, Zenon DEF LoopAt
    <3> QED  BY <2>1, <3>1, Zenon
  <2> QED  BY <2>2, <2>3, Zenon
<1>4. PICK t \in Nat, v \in Nat : LoopAt(where) = [loop EXCEPT !.at = where, !.from = t, !.version = v]
  BY <1>3, Zenon
<1>5. LET l == [loop EXCEPT !.at = where, !.from = t, !.version = v] IN
      /\ l \in Loops /\ l.at = where /\ l.deadline = loop.deadline
      /\ l.navigation = loop.navigation /\ l.polled = loop.polled
  BY <1>2, Zenon
<1> QED  BY <1>4, <1>5, Zenon

\* What the page does by itself, and what its tracker hears of it
LEMMA PageMoves ==
    ASSUME RenderInv,
           Mutate \/ Progress \/ Resource \/ LetThrough \/ Block \/ Refuse \/ CallerLeaves
             \/ \E u \in Urls : AskDocument(u)
    PROVE  RenderInv'
<1> USE DEF RenderInv
<1>1. /\ UNCHANGED <<time, loop, readiness, decision, rendered, slow>>
      /\ moved' = time \/ UNCHANGED <<page, moved>>
  BY DEF Mutate, Progress, Resource, LetThrough, Block, Refuse, CallerLeaves, AskDocument,
         Navigated, LeaveRender, environment
<1>2. /\ page' \in [url : Locations, version : Nat, ready : Progressed]
      /\ \/ UNCHANGED <<page, moved>>
         \/ page'.version = page.version + 1
         \/ page'.version = page.version /\ page.ready = "loading" /\ page'.ready = "interactive"
         \/ page'.version = page.version /\ page.ready = "interactive" /\ page'.ready = "complete"
  BY RenderConstants
  DEF Mutate, Progress, Resource, LetThrough, Block, Refuse, CallerLeaves, AskDocument,
      Navigated, LeaveRender, environment, RenderTyped, Progressed, Locations
<1>3. paused' \in Locations
  BY RenderConstants
  DEF Mutate, Progress, Resource, LetThrough, Block, Refuse, CallerLeaves, AskDocument,
      Navigated, LeaveRender, environment, RenderTyped, Locations
<1>4. tracker' \in Trackers
  BY DEF Mutate, Progress, Resource, LetThrough, Block, Refuse, CallerLeaves, AskDocument,
      Navigated, LeaveRender, environment, RenderTyped, Trackers
<1>5. RenderTyped'
  BY <1>1, <1>2, <1>3, <1>4 DEF RenderTyped
<1>6. OnTime' /\ DecidedStill' /\ ReturnsDecision'
  BY <1>1 DEF OnTime, DecidedStill, ReturnsDecision
<1>7. GetsFurther' /\ NotMoved'
  BY <1>1, <1>2 DEF GetsFurther, NotMoved, Changed, RenderTyped, Progressed
<1> QED  BY <1>5, <1>6, <1>7

\* The steps of the loop that leave what it knows of the page alone
LEMMA LoopTurns ==
    ASSUME RenderInv, Launch \/ Setup \/ Top \/ SeeCancelled \/ PollPage \/ ProbeFails
    PROVE  RenderInv'
<1> USE DEF RenderInv
<1>1. /\ UNCHANGED <<time, slow, moved, page, tracker, readiness, decision>>
      /\ paused' \in Locations /\ (UNCHANGED rendered \/ rendered'.kind = "error")
  BY DEF Launch, Setup, Top, SeeCancelled, PollPage, ProbeFails, RenderFails, environment,
         RenderTyped, Locations
<1>2. \A where \in Spots :
         /\ LoopAt(where) \in Loops /\ LoopAt(where).at = where
         /\ LoopAt(where).deadline = loop.deadline /\ LoopAt(where).navigation = loop.navigation
         /\ LoopAt(where).polled = loop.polled
  BY LoopElsewhere
<1>3. loop' \in Loops /\ OnTime' /\ loop.at # "done"
  <2>1. CASE Top
    <3> DEFINE where == IF time >= Extended THEN "finish" ELSE "wait"
    <3>1. where \in Spots /\ (where = "wait" => time < Extended) /\ where \in {"wait", "finish"}
      BY RenderConstants DEF Spots, Extended, Smaller, Larger, RenderTyped, Loops, Trackers
    <3>2. /\ Extended \in Nat /\ Extended <= Hardest
          /\ Larger(loop.navigation, tracker.navigated) \in Nat
      BY RenderConstants DEF Extended, Smaller, Larger, RenderTyped, OnTime, Loops, Trackers
    <3>5. /\ loop.at = "top"
          /\ loop' = [LoopAt(where) EXCEPT !.deadline = Extended,
                        !.navigation = Larger(LoopAt(where).navigation, tracker.navigated)]
      BY <2>1, Zenon DEF Top
    <3>6. LoopAt(where).navigation = loop.navigation
      BY <1>2, <3>1, Zenon
    <3>3. loop' = [LoopAt(where) EXCEPT !.deadline = Extended,
                                        !.navigation = Larger(loop.navigation, tracker.navigated)]
      BY <3>5, <3>6, Zenon
    <3>4. /\ loop' \in Loops /\ loop'.at = where /\ loop'.deadline = Extended
          /\ loop'.polled = loop.polled
      <4>1. LoopAt(where) \in Loops /\ LoopAt(where).at = where /\ LoopAt(where).polled = loop.polled
        BY <1>2, <3>1
      <4> DEFINE l == LoopAt(where)
                 n == Larger(loop.navigation, tracker.navigated)
      <4>2. l \in Loops /\ l.at = where /\ l.polled = loop.polled /\ Extended \in Nat /\ n \in Int
            /\ loop' = [l EXCEPT !.deadline = Extended, !.navigation = n]
        BY <3>2, <3>3, <4>1
      <4> HIDE DEF where, l, n
      <4> QED  BY <4>2 DEF Loops
    <3> HIDE DEF where
    <3> QED  BY <1>1, <3>1, <3>2, <3>5, <3>4, RenderConstants DEF OnTime, RenderTyped, Loops
  <2>2. CASE \E where \in {"done"} \cup (IF loop.at = "launch" THEN {"setup"} ELSE {"top", "finish"}) :
                loop' = LoopAt(where) /\ loop.at \in Spots \ {"done", "setup"}
    BY <1>1, <1>2, <2>2, RenderConstants DEF OnTime, RenderTyped, Loops, Spots
  <2>3. CASE /\ loop.at = "setup"
             /\ \/ loop' = LoopAt("done")
                \/ loop' = [LoopAt("top") EXCEPT !.started = time, !.polled = time]
    <3>1. LoopAt("done") \in Loops /\ LoopAt("done").at = "done"
          /\ LoopAt("done").deadline = loop.deadline /\ LoopAt("done").navigation = loop.navigation
          /\ LoopAt("done").polled = loop.polled
          /\ LoopAt("top") \in Loops /\ LoopAt("top").at = "top"
          /\ LoopAt("top").deadline = loop.deadline /\ LoopAt("top").navigation = loop.navigation
      BY <1>2 DEF Spots
    <3>2. CASE loop' = LoopAt("done")
      BY <1>1, <2>3, <3>1, <3>2 DEF OnTime
    <3>3. CASE loop' = [LoopAt("top") EXCEPT !.started = time, !.polled = time]
      <4>1. time \in Nat /\ slow \in Nat
        BY DEF RenderTyped
      <4>2. /\ loop' \in Loops /\ loop'.at = "top" /\ loop'.deadline = loop.deadline
            /\ loop'.navigation = loop.navigation /\ loop'.polled = time
        BY <3>1, <3>3, <4>1 DEF Loops
      <4> QED  BY <1>1, <2>3, <4>1, <4>2, RenderConstants DEF OnTime
    <3> QED  BY <2>3, <3>2, <3>3
  <2>4. CASE loop.at = "wait" /\ loop' = [LoopAt("probe") EXCEPT !.polled = time]
    BY <1>1, <1>2, <2>4, RenderConstants DEF OnTime, RenderTyped, Loops, Spots
  <2> QED
    BY <2>1, <2>2, <2>3, <2>4
    DEF Launch, Setup, SeeCancelled, PollPage, ProbeFails, RenderFails, LoopGoes, Spots
<1>4. RenderTyped'
  BY <1>1, <1>3 DEF RenderTyped
<1>5. GetsFurther' /\ NotMoved' /\ DecidedStill' /\ ReturnsDecision'
  BY <1>1, <1>3 DEF GetsFurther, NotMoved, Changed, DecidedStill, ReturnsDecision
<1> QED  BY <1>3, <1>4, <1>5

LEMMA ProbeKeeps == ASSUME RenderInv, Probe  PROVE  RenderInv'
<1> USE DEF RenderInv
<1> DEFINE since == IF Changed THEN time ELSE readiness.since
           d == Decided(since)
<1>1. since \in Nat /\ moved <= since /\ (Changed => since = time)
  BY DEF NotMoved, RenderTyped
<1>2. d.complete => d.still >= Stability
  <2>1. d.complete => time - since >= Stability
    BY Zenon DEF Decided
  <2>2. d.still = time - moved
    BY Zenon DEF Decided
  <2> QED  BY <1>1, <2>1, <2>2, RenderConstants DEF RenderTyped
<1> HIDE DEF since, d
<1>3. /\ loop.at = "probe" /\ UNCHANGED <<environment, time, captures, captured, cancelled, rendered, slow>>
      /\ readiness' = [url |-> page.url, version |-> page.version, ready |-> page.ready,
                       since |-> since]
      /\ decision' = IF d.stable THEN d ELSE NoDecision
      /\ \E where \in Spots \ {"wait", "launch", "setup"} : loop' = LoopAt(where)
  BY DEF Probe, LoopGoes, Spots, since, d
<1>4. /\ loop' \in Loops /\ loop'.at \in Spots \ {"wait", "launch", "setup"}
      /\ UNCHANGED <<loop.deadline, loop.navigation, loop.polled>>
  BY <1>3, LoopElsewhere
<1>5. RenderTyped'
  BY <1>1, <1>3, <1>4 DEF RenderTyped, environment
<1>6. OnTime'
  BY <1>3, <1>4 DEF OnTime, RenderTyped, Spots
<1>7. GetsFurther' /\ NotMoved'
  BY <1>1, <1>3 DEF GetsFurther, NotMoved, environment, RenderTyped, Progressed
<1>8. DecidedStill' /\ ReturnsDecision'
  BY <1>2, <1>3 DEF DecidedStill, ReturnsDecision, NoDecision
<1> QED  BY <1>5, <1>6, <1>7, <1>8

\* What is captured and returned, and time
LEMMA RestOfRender ==
    ASSUME RenderInv, Capture \/ FinishRender \/ PassTime
    PROVE  RenderInv'
<1> USE DEF RenderInv
<1>1. CASE Capture \/ FinishRender
  <2>1. \E where \in {"done", "finish", "top"} : loop' = LoopAt(where)
    BY <1>1 DEF Capture, FinishRender, RenderFails, RenderReturns, LoopGoes
  <2>2. /\ loop' \in Loops /\ loop'.at \in {"done", "finish", "top"}
        /\ UNCHANGED <<loop.deadline, loop.navigation, loop.polled>>
    BY <2>1, LoopElsewhere DEF Spots
  <2>3. /\ UNCHANGED <<environment, time, slow, readiness, decision>>
        /\ loop.at \in {"capture", "finish"}
    BY <1>1 DEF Capture, FinishRender, RenderTyped
  <2>4. ReturnsDecision'
    BY <1>1, <2>3, LoopElsewhere
    DEF ReturnsDecision, Capture, FinishRender, RenderFails, RenderReturns, LoopGoes, Spots
  <2>5. RenderTyped' /\ OnTime'
    BY <2>2, <2>3 DEF RenderTyped, OnTime, environment
  <2> QED
    BY <2>3, <2>4, <2>5 DEF GetsFurther, NotMoved, Changed, DecidedStill, environment
<1>2. CASE PassTime
  <2>1. /\ UNCHANGED <<environment, loop, readiness, decision, rendered>> /\ time' = time + 1
        /\ \/ loop.at = "wait" /\ time = loop.polled /\ slow' = slow
           \/ loop.at \notin {"wait", "done"} /\ slow' = slow + 1
    BY <1>2 DEF PassTime
  <2>2. RenderTyped' /\ OnTime'
    BY <2>1, RenderConstants DEF RenderTyped, OnTime, Loops, environment
  <2> QED
    BY <2>1, <2>2 DEF GetsFurther, NotMoved, Changed, DecidedStill, ReturnsDecision, environment
<1> QED  BY <1>1, <1>2

LEMMA RenderStep == RenderInv /\ [RenderNext]_renderVars => RenderInv'
<1> SUFFICES ASSUME RenderInv, [RenderNext]_renderVars  PROVE RenderInv'
  OBVIOUS
<1>1. CASE UNCHANGED renderVars
  BY <1>1 DEF renderVars, RenderInv, RenderTyped, OnTime, GetsFurther, NotMoved, Changed,
              DecidedStill, ReturnsDecision
<1>2. CASE RenderNext
  BY <1>1, <1>2, PageMoves, LoopTurns, ProbeKeeps, RestOfRender DEF RenderNext
<1> QED  BY <1>1, <1>2

-----------------------------------------------------------------------------
(* The page: theorems. *)

\* The invariant of the renderer: a page that is as it was seen has not moved
\* since, and what passes beyond the hardest deadline passes during calls.
THEOREM RendersAreSound == RenderInit /\ [][RenderNext]_renderVars => []RenderInv
<1> QED  BY RenderBegins, RenderStep, PTL

\* What is returned as stable was still, and no page holds the renderer beyond
\* its last deadline: for any windows, deadlines and documents, and however
\* often the page changes or asks for another.
THEOREM RendersAreSafe == RenderInit /\ [][RenderNext]_renderVars => []RenderSafe
<1>1. ASSUME RenderInv  PROVE RenderSafe
  BY <1>1, RenderConstants
  DEF RenderInv, RenderTyped, OnTime, DecidedStill, ReturnsDecision, RenderSafe, StableHasSettled,
      RenderEndsInTime, Rendering
<1> QED  BY <1>1, RendersAreSound, PTL

-----------------------------------------------------------------------------
(* The links: the invariant. *)

DiskFiles == [name : {"picture", "sound", "whole"}, state : {"good", "big"}]
FileNames == [dir : Nat, name : {"picture", "sound", "whole", "none"}]
Tries == [source : {"none", "api", "formats", "douyin", "twitter", "candidate", "ytdlp"},
          dir : Nat, parts : Seq({"picture", "sound", "whole"}), urls : Nat]
PostMedia == [kind : Kinds, at : {"new", "loading", "done"}, dir : Nat, path : FileNames]
Replies == [link : Nat, is : {"text", "excuse", "image", "video"}, file : FileNames, failed : Nat]

ResolverTyped ==
    /\ mail \in Mails /\ turn \in Nat /\ 1 <= turn /\ turn <= Len(mail) + 1
    /\ spot \in {"next", "metadata", "search", "fetch", "media", "done"}
    /\ spot \notin {"next", "done"} => turn <= Len(mail)
    /\ try \in Tries /\ made \in Nat
    /\ media = [l \in DOMAIN mail |-> media[l]] /\ \A l \in DOMAIN mail : media[l] \in Seq(PostMedia)
    /\ disk = [d \in DOMAIN disk |-> disk[d]] /\ \A d \in DOMAIN disk : disk[d] \subseteq DiskFiles
    /\ \A d \in DOMAIN disk : d \in Nat /\ 1 <= d /\ d <= made
    /\ nodes \in Seq(Replies)

\* The directories of the answer's videos, those with a timer, that of the
\* place that is tried, and those of the media that are downloaded or were
VideosOf(told) == {told[k].file.dir : k \in {n \in DOMAIN told : told[n].is = "video"}}
Timed == UNION timers
Tried == IF spot = "fetch" THEN {try.dir} ELSE {}
Holds(m) == m.at = "loading" \/ m.path # NoFile
InHand == IF spot = "media" THEN {media[turn][i].dir : i \in {n \in DOMAIN media[turn] : Holds(media[turn][n])}}
          ELSE {}

\* Each directory has one owner, who will remove it or names it in the answer.
OneOwnerEach ==
    /\ DOMAIN disk = VideosOf(nodes) \cup Timed \cup Tried \cup InHand
    /\ VideosOf(nodes) \cap Timed = {}
    /\ (Tried \cup InHand) \cap (VideosOf(nodes) \cup Timed) = {}
    /\ \A p, q \in timers : p = q \/ p \cap q = {}

VideosAreGood ==
    \A k \in DOMAIN nodes : nodes[k].is = "video" =>
       /\ nodes[k].file # NoFile
       /\ \E f \in disk[nodes[k].file.dir] : f.name = nodes[k].file.name /\ f.state = "good"

\* A goroutine has its own medium, directory and result.
OwnMedium(i, m) ==
    /\ m.at = "new" => m.dir = 0
    /\ m.at = "loading" => m.dir # 0
    /\ m.dir <= made
    /\ m.path # NoFile => /\ m.at = "done" /\ m.dir # 0 /\ m.path = [dir |-> m.dir, name |-> "whole"]
                          /\ disk[m.dir] = {[name |-> "whole", state |-> "good"]}
    /\ \A n \in DOMAIN media[turn] : n # i /\ m.dir # 0 => media[turn][n].dir # m.dir

MediaApart == spot = "media" => \A i \in DOMAIN media[turn] : OwnMedium(i, media[turn][i])

\* Media belong to the links so far, and so do the answer's parts.
LinksSoFar ==
    /\ \A l \in DOMAIN mail : l > turn \/ (l = turn /\ spot # "media") => media[l] = <<>>
    /\ \A k \in DOMAIN nodes : nodes[k].link < turn

ResolverInv ==
    /\ ResolverTyped /\ OneOwnerEach /\ VideosAreGood /\ MediaApart /\ LinksSoFar
    /\ PostIsWhole /\ (spot = "done" => turn > Len(mail))

-----------------------------------------------------------------------------
(* The links: proofs. *)

LEMMA MailsAre == \A m \in Mails : m \in Seq({"bilibili", "douyin", "xiaohongshu", "twitter", "youtube", "page"})
<1> QED  BY ResolverAssumption DEF ResolverAssumption

LEMMA LinkStands ==
    ASSUME ResolverInv
    PROVE  /\ Len(mail) \in Nat /\ DOMAIN mail = 1 .. Len(mail)
           /\ turn <= Len(mail) => turn \in DOMAIN mail /\ media[turn] \in Seq(PostMedia)
           /\ Len(nodes) \in Nat /\ DOMAIN nodes = 1 .. Len(nodes)
<1>1. mail \in Mails /\ turn \in Nat /\ 1 <= turn /\ nodes \in Seq(Replies)
      /\ \A l \in DOMAIN mail : media[l] \in Seq(PostMedia)
  BY DEF ResolverInv, ResolverTyped
<1>2. Len(mail) \in Nat /\ DOMAIN mail = 1 .. Len(mail)
  BY <1>1, MailsAre, LenProperties
<1> QED  BY <1>1, <1>2, LenProperties

LEMMA ResolverBegins == ResolverInit => ResolverInv
<1> SUFFICES ASSUME ResolverInit  PROVE ResolverInv
  OBVIOUS
<1>1. /\ mail \in Mails /\ turn = 1 /\ spot = "next" /\ try = NoTry /\ made = 0 /\ nodes = <<>>
      /\ media = [i \in DOMAIN mail |-> <<>>] /\ disk = <<>> /\ timers = {}
  BY DEF ResolverInit
<1>2. Len(mail) \in Nat  BY <1>1, MailsAre, LenProperties
<1>3. DOMAIN disk = {} /\ DOMAIN nodes = {} /\ <<>> \in Seq(PostMedia) /\ <<>> \in Seq(Replies)
  BY <1>1
<1>4. try \in Tries  BY <1>1 DEF NoTry, Tries
<1>5. ResolverTyped
  BY <1>1, <1>2, <1>3, <1>4 DEF ResolverTyped
<1>6. OneOwnerEach
  BY <1>1, <1>3 DEF OneOwnerEach, VideosOf, Timed, Tried, InHand
<1>7. VideosAreGood /\ MediaApart /\ LinksSoFar /\ PostIsWhole
  BY <1>1, <1>3 DEF VideosAreGood, MediaApart, LinksSoFar, PostIsWhole
<1> QED  BY <1>1, <1>5, <1>6, <1>7 DEF ResolverInv

\* The parts of a longer answer
LEMMA AnswerGrows ==
    ASSUME ResolverInv, NEW r \in Seq(Replies)
    PROVE  LET now == nodes \o r IN
           /\ now \in Seq(Replies) /\ Len(r) \in Nat /\ DOMAIN r = 1 .. Len(r)
           /\ Len(now) = Len(nodes) + Len(r) /\ DOMAIN now = 1 .. Len(nodes) + Len(r)
           /\ \A k \in DOMAIN nodes : k \in DOMAIN now /\ now[k] = nodes[k]
           /\ \A k \in DOMAIN r : Len(nodes) + k \in DOMAIN now /\ now[Len(nodes) + k] = r[k]
           /\ \A k \in DOMAIN now : k \in DOMAIN nodes \/ (k - Len(nodes) \in DOMAIN r /\ now[k] = r[k - Len(nodes)])
<1> DEFINE now == nodes \o r
<1>1. nodes \in Seq(Replies)  BY DEF ResolverInv, ResolverTyped
<1>2. now \in Seq(Replies) /\ Len(now) = Len(nodes) + Len(r)
      /\ \A k \in 1 .. Len(nodes) + Len(r) : now[k] = IF k <= Len(nodes) THEN nodes[k] ELSE r[k - Len(nodes)]
  BY <1>1, ConcatProperties
<1>3. Len(r) \in Nat /\ DOMAIN r = 1 .. Len(r) /\ Len(nodes) \in Nat /\ DOMAIN nodes = 1 .. Len(nodes)
  BY LinkStands, LenProperties
<1>4. DOMAIN now = 1 .. Len(nodes) + Len(r)  BY <1>2, LenProperties
<1> HIDE DEF now
<1>5. \A k \in DOMAIN nodes : k \in DOMAIN now /\ now[k] = nodes[k]
  BY <1>2, <1>3, <1>4
<1>6. \A k \in DOMAIN r : Len(nodes) + k \in DOMAIN now /\ now[Len(nodes) + k] = r[k]
  BY <1>2, <1>3, <1>4
<1>7. \A k \in DOMAIN now : k \in DOMAIN nodes \/ (k - Len(nodes) \in DOMAIN r /\ now[k] = r[k - Len(nodes)])
  BY <1>2, <1>3, <1>4
<1> QED  BY <1>2, <1>3, <1>4, <1>5, <1>6, <1>7 DEF now

\* What was told of the links before stays as it was.
LEMMA ToldStays ==
    ASSUME ResolverInv, NEW r \in Seq(Replies), \A k \in DOMAIN r : r[k].link = turn,
           nodes' = nodes \o r, NEW l \in 1 .. turn - 1, media'[l] = media[l], PostIsTold(l)
    PROVE  PostIsTold(l)'
<1> DEFINE S == {k \in DOMAIN nodes : nodes[k].link = l /\ nodes[k].file # NoFile}
           S2 == {k \in DOMAIN nodes' : nodes'[k].link = l /\ nodes'[k].file # NoFile}
<1>1. turn \in Nat  BY DEF ResolverInv, ResolverTyped
<1>2. /\ \A k \in DOMAIN nodes : k \in DOMAIN nodes' /\ nodes'[k] = nodes[k]
      /\ \A k \in DOMAIN nodes' : k \in DOMAIN nodes \/ nodes'[k].link = turn
  BY AnswerGrows
<1>3. S2 = S /\ \A k \in S : nodes'[k] = nodes[k]
  BY <1>1, <1>2
<1>4. /\ \A k \in S : \E i \in DOMAIN media[l] :
              /\ nodes[k].file.dir = media[l][i].dir
              /\ nodes[k].is = IF media[l][i].kind = "photo" THEN "image" ELSE "video"
      /\ \A j, k \in S, i, n \in DOMAIN media[l] :
              j < k /\ nodes[j].file.dir = media[l][i].dir /\ nodes[k].file.dir = media[l][n].dir => i < n
      /\ \E told \in Range(nodes) :
              told.link = l /\ told.failed = Len(media[l]) - Cardinality(S)
  BY Zenon DEF PostIsTold
<1>5. Range(nodes) \subseteq Range(nodes')
  BY <1>2 DEF Range
<1> HIDE DEF S, S2
<1>6. /\ \A k \in S2 : \E i \in DOMAIN media'[l] :
              /\ nodes'[k].file.dir = media'[l][i].dir
              /\ nodes'[k].is = IF media'[l][i].kind = "photo" THEN "image" ELSE "video"
      /\ \A j, k \in S2, i, n \in DOMAIN media'[l] :
              j < k /\ nodes'[j].file.dir = media'[l][i].dir /\ nodes'[k].file.dir = media'[l][n].dir => i < n
      /\ \E told \in Range(nodes') :
              told.link = l /\ told.failed = Len(media'[l]) - Cardinality(S2)
  <2> DEFINE ms == media[l]
  <2>4. media'[l] = ms  OBVIOUS
  <2>5. /\ \A k \in S : \E i \in DOMAIN ms :
              /\ nodes[k].file.dir = ms[i].dir
              /\ nodes[k].is = IF ms[i].kind = "photo" THEN "image" ELSE "video"
        /\ \A j, k \in S, i, n \in DOMAIN ms :
              j < k /\ nodes[j].file.dir = ms[i].dir /\ nodes[k].file.dir = ms[n].dir => i < n
    BY <1>4
  <2> HIDE DEF ms
  <2>1. \A k \in S2 : \E i \in DOMAIN media'[l] :
              /\ nodes'[k].file.dir = media'[l][i].dir
              /\ nodes'[k].is = IF media'[l][i].kind = "photo" THEN "image" ELSE "video"
    <3> TAKE k \in S2
    <3>1. k \in S /\ nodes'[k] = nodes[k]  BY <1>3
    <3>2. PICK i \in DOMAIN ms : /\ nodes[k].file.dir = ms[i].dir
                                 /\ nodes[k].is = IF ms[i].kind = "photo" THEN "image" ELSE "video"
      BY <2>5, <3>1
    <3>3. i \in DOMAIN media'[l]  BY <2>4
    <3> WITNESS i \in DOMAIN media'[l]
    <3> QED  BY <2>4, <3>1, <3>2
  <2>2. \A j, k \in S2, i, n \in DOMAIN media'[l] :
              j < k /\ nodes'[j].file.dir = media'[l][i].dir /\ nodes'[k].file.dir = media'[l][n].dir => i < n
    <3> TAKE j, k \in S2, i, n \in DOMAIN media'[l]
    <3>1. j \in S /\ k \in S /\ nodes'[j] = nodes[j] /\ nodes'[k] = nodes[k]  BY <1>3
    <3>2. i \in DOMAIN ms /\ n \in DOMAIN ms  BY <2>4
    <3> QED  BY <2>4, <2>5, <3>1, <3>2
  <2>3. \E told \in Range(nodes') :
              told.link = l /\ told.failed = Len(media'[l]) - Cardinality(S2)
    BY <1>3, <1>4, <1>5
  <2> QED  BY <2>1, <2>2, <2>3
<1> QED  BY <1>6, Zenon DEF PostIsTold, S2

\* The answer about a link is added: who owned its directories hands them over
\* to the answer's videos and to timers.
LEMMA LinkDone ==
    ASSUME ResolverInv, NEW t, t = turn, turn <= Len(mail), NEW r \in Seq(Replies), NEW T,
           \A k \in DOMAIN r : r[k].link = turn,
           nodes' = nodes \o r, turn' = turn + 1, spot' = "next", try' = NoTry,
           timers' = timers \cup T, UNCHANGED <<mail, media, disk, made>>,
           VideosOf(r) \cup UNION T = Tried \cup InHand, VideosOf(r) \cap UNION T = {},
           \A p, q \in T : p = q \/ p \cap q = {},
           \A k \in DOMAIN r : r[k].is = "video" =>
              /\ r[k].file # NoFile
              /\ \E f \in disk[r[k].file.dir] : f.name = r[k].file.name /\ f.state = "good",
           media[t] # <<>> => PostIsTold(t)'
    PROVE  ResolverInv'
<1>1. /\ Len(mail) \in Nat /\ DOMAIN mail = 1 .. Len(mail) /\ turn \in Nat /\ 1 <= turn
      /\ turn \in DOMAIN mail
  BY LinkStands DEF ResolverInv, ResolverTyped
<1>2. /\ nodes' \in Seq(Replies) /\ Len(nodes) \in Nat
      /\ \A k \in DOMAIN nodes : k \in DOMAIN nodes' /\ nodes'[k] = nodes[k]
      /\ \A k \in DOMAIN r : Len(nodes) + k \in DOMAIN nodes' /\ nodes'[Len(nodes) + k] = r[k]
      /\ \A k \in DOMAIN nodes' : k \in DOMAIN nodes \/ (k - Len(nodes) \in DOMAIN r /\ nodes'[k] = r[k - Len(nodes)])
  BY AnswerGrows, LinkStands
<1>3. try' \in Tries  BY DEF NoTry, Tries
<1>4. ResolverTyped'
  BY <1>1, <1>2, <1>3 DEF ResolverInv, ResolverTyped
<1>5. VideosOf(nodes') = VideosOf(nodes) \cup VideosOf(r)
  <2>1. ASSUME NEW d \in VideosOf(nodes')  PROVE d \in VideosOf(nodes) \cup VideosOf(r)
    <3>1. PICK k \in DOMAIN nodes' : nodes'[k].is = "video" /\ d = nodes'[k].file.dir
      BY <2>1 DEF VideosOf
    <3> QED  BY <1>2, <3>1 DEF VideosOf
  <2>2. ASSUME NEW d \in VideosOf(nodes)  PROVE d \in VideosOf(nodes')
    BY <1>2, <2>2 DEF VideosOf
  <2>3. ASSUME NEW d \in VideosOf(r)  PROVE d \in VideosOf(nodes')
    <3>1. PICK k \in DOMAIN r : r[k].is = "video" /\ d = r[k].file.dir
      BY <2>3 DEF VideosOf
    <3>2. Len(nodes) + k \in DOMAIN nodes' /\ nodes'[Len(nodes) + k] = r[k]  BY <1>2
    <3> QED  BY <3>1, <3>2 DEF VideosOf
  <2> QED  BY <2>1, <2>2, <2>3
<1>6. Tried' = {} /\ InHand' = {}
  BY DEF Tried, InHand
<1> DEFINE U == Timed
           W == UNION T
           V == VideosOf(nodes)
           R == VideosOf(r)
           X == Timed'
<1>11. X = U \cup W
  <2>1. ASSUME NEW x  PROVE x \in X <=> x \in U \cup W
    <3>1. x \in X <=> \E p \in timers' : x \in p  BY DEF Timed
    <3>2. x \in U <=> \E p \in timers : x \in p  BY DEF Timed
    <3>3. x \in W <=> \E p \in T : x \in p  OBVIOUS
    <3> HIDE DEF X, U, W
    <3> QED  BY <3>1, <3>2, <3>3
  <2> HIDE DEF X, U, W
  <2> QED  BY <2>1
<1>12. /\ DOMAIN disk = V \cup U \cup Tried \cup InHand
       /\ V \cap U = {} /\ (Tried \cup InHand) \cap (V \cup U) = {}
       /\ R \cup W = Tried \cup InHand /\ R \cap W = {} /\ VideosOf(nodes') = V \cup R
       /\ \A p, q \in timers : p = q \/ p \cap q = {}
  <2>1. OneOwnerEach  BY DEF ResolverInv
  <2>2. DOMAIN disk = V \cup U \cup Tried \cup InHand  BY <2>1 DEF OneOwnerEach
  <2>3. V \cap U = {} /\ (Tried \cup InHand) \cap (V \cup U) = {}
        /\ \A p, q \in timers : p = q \/ p \cap q = {}
    BY <2>1, Zenon DEF OneOwnerEach
  <2>4. R \cup W = Tried \cup InHand  OBVIOUS
  <2>5. R \cap W = {}  OBVIOUS
  <2>6. VideosOf(nodes') = V \cup R  BY <1>5
  <2> HIDE DEF V, U, W, R
  <2> QED  BY <2>2, <2>3, <2>4, <2>5, <2>6
<1>7. OneOwnerEach'
  <2>1. \A x \in timers, y \in T : x \cap y = {}
    <3> TAKE x \in timers, y \in T
    <3>1. x \subseteq U /\ y \subseteq W  BY DEF Timed
    <3> HIDE DEF U, W, V, R
    <3> QED  BY <1>12, <3>1
  <2>2. DOMAIN disk' = VideosOf(nodes') \cup X /\ VideosOf(nodes') \cap X = {}
    <3> HIDE DEF U, W, V, R, X
    <3> QED  BY <1>11, <1>12
  <2>3. ASSUME NEW p \in timers', NEW q \in timers'  PROVE p = q \/ p \cap q = {}
    BY <1>12, <2>1
  <2> QED  BY <1>6, <2>2, <2>3 DEF OneOwnerEach
<1>8. VideosAreGood'
  <2> SUFFICES ASSUME NEW k \in DOMAIN nodes', nodes'[k].is = "video"
               PROVE  /\ nodes'[k].file # NoFile
                      /\ \E f \in disk[nodes'[k].file.dir] : f.name = nodes'[k].file.name /\ f.state = "good"
    BY DEF VideosAreGood
  <2>1. CASE k \in DOMAIN nodes
    <3>1. nodes'[k] = nodes[k]  BY <1>2, <2>1
    <3>2. VideosAreGood  BY DEF ResolverInv
    <3>3. /\ nodes[k].file # NoFile
          /\ \E f \in disk[nodes[k].file.dir] : f.name = nodes[k].file.name /\ f.state = "good"
      BY <2>1, <3>1, <3>2 DEF VideosAreGood
    <3> QED  BY <3>1, <3>3
  <2>2. CASE k \notin DOMAIN nodes
    <3> DEFINE x == k - Len(nodes)
    <3>1. x \in DOMAIN r /\ nodes'[k] = r[x]  BY <1>2, <2>2
    <3> HIDE DEF x
    <3>2. r[x].is = "video"  BY <3>1
    <3>3. /\ r[x].file # NoFile
          /\ \E f \in disk[r[x].file.dir] : f.name = r[x].file.name /\ f.state = "good"
      BY <3>1, <3>2
    <3> QED  BY <3>1, <3>3
  <2> QED  BY <2>1, <2>2
<1>9. LinksSoFar' /\ MediaApart'
  <2>1. \A k \in DOMAIN nodes' : nodes'[k].link < turn'
    <3>1. \A k \in DOMAIN nodes : nodes[k].link < turn /\ nodes[k].link \in Nat
      <4>1. \A k \in DOMAIN nodes : nodes[k] \in Replies
        BY ElementOfSeq, LinkStands DEF ResolverInv, ResolverTyped
      <4> QED  BY <4>1 DEF ResolverInv, LinksSoFar, Replies
    <3> QED  BY <1>1, <1>2, <3>1
  <2> QED  BY <1>1, <2>1 DEF ResolverInv, LinksSoFar, MediaApart
<1>10. PostIsWhole'
  <2>1. ASSUME NEW l \in 1 .. turn' - 1, media'[l] # <<>>  PROVE PostIsTold(l)'
    <3>1. CASE l = t  BY <2>1, <3>1
    <3>2. CASE l # t
      <4>1. l \in 1 .. turn - 1  BY <1>1, <3>2
      <4>2. PostIsTold(l)  BY <2>1, <4>1 DEF ResolverInv, PostIsWhole
      <4> QED  BY <4>1, <4>2, ToldStays
    <3> QED  BY <3>1, <3>2
  <2> QED  BY <2>1, Zenon DEF PostIsWhole
<1> QED  BY <1>4, <1>7, <1>8, <1>9, <1>10 DEF ResolverInv

LEMMA WholeStays ==
    ASSUME ResolverInv, nodes' = nodes, turn' = turn, \A l \in 1 .. turn - 1 : media'[l] = media[l]
    PROVE  PostIsWhole'
<1>1. nodes' = nodes \o <<>> /\ <<>> \in Seq(Replies)
  BY ConcatEmptySeq DEF ResolverInv, ResolverTyped
<1>2. ASSUME NEW l \in 1 .. turn' - 1, media'[l] # <<>>  PROVE PostIsTold(l)'
  <2>1. l \in 1 .. turn - 1 /\ media'[l] = media[l] /\ PostIsTold(l)
    BY <1>2 DEF ResolverInv, PostIsWhole
  <2> DEFINE r == <<>>
  <2>2. r \in Seq(Replies) /\ nodes' = nodes \o r /\ \A k \in DOMAIN r : r[k].link = turn
    BY <1>1
  <2> HIDE DEF r
  <2> QED  BY <2>1, <2>2, ToldStays
<1> QED  BY <1>2, Zenon DEF PostIsWhole

LEMMA SameKeeps ==
    ASSUME ResolverInv, UNCHANGED <<mail, turn, spot, try, media, disk, made, nodes, timers>>
    PROVE  ResolverInv'
<1>1. ResolverTyped' /\ LinksSoFar' /\ VideosAreGood'
  BY DEF ResolverInv, ResolverTyped, LinksSoFar, VideosAreGood
<1>4. MediaApart'
  BY DEF ResolverInv, MediaApart, OwnMedium
<1>2. OneOwnerEach'
  BY DEF ResolverInv, OneOwnerEach, Timed, Tried, InHand, VideosOf
<1>3. PostIsWhole'
  BY WholeStays
<1> QED  BY <1>1, <1>2, <1>3, <1>4 DEF ResolverInv

\* Handle goes on to another point, with the answer as it is.
LEMMA GoesOn ==
    ASSUME ResolverInv, UNCHANGED <<mail, turn, try, media, disk, made, nodes, timers>>,
           spot \notin {"fetch", "media"}, turn <= Len(mail), spot' \in {"metadata", "search"}
    PROVE  ResolverInv'
<1>1. ResolverTyped' /\ LinksSoFar' /\ MediaApart' /\ VideosAreGood'
  BY DEF ResolverInv, ResolverTyped, LinksSoFar, MediaApart, VideosAreGood
<1>2. OneOwnerEach'
  BY DEF ResolverInv, OneOwnerEach, Timed, Tried, InHand, VideosOf
<1>3. PostIsWhole'
  BY WholeStays
<1> QED  BY <1>1, <1>2, <1>3 DEF ResolverInv

LEMMA LinkPassed ==
    ASSUME ResolverInv, NextLink \/ AskPermission \/ ReturnAnswer
    PROVE  ResolverInv'
<1>1. CASE AskPermission
  BY <1>1, SameKeeps DEF AskPermission
<1>2. CASE NextLink /\ turn' = turn
  <2>1. /\ UNCHANGED <<mail, turn, try, media, disk, made, nodes, timers>>
        /\ spot = "next" /\ turn <= Len(mail) /\ spot' = "metadata"
    BY <1>2 DEF NextLink, ResolverInv, ResolverTyped
  <2> QED  BY <2>1, GoesOn
<1>3. CASE NextLink /\ turn' # turn
  <2>1. /\ UNCHANGED <<mail, spot, try, media, disk, made, nodes, timers>>
        /\ spot = "next" /\ turn <= Len(mail) /\ turn' = turn + 1
    BY <1>3 DEF NextLink
  <2>2. turn \in Nat /\ Len(mail) \in Nat /\ DOMAIN mail = 1 .. Len(mail) /\ 1 <= turn
    BY LinkStands DEF ResolverInv, ResolverTyped
  <2>3. ResolverTyped' /\ VideosAreGood' /\ MediaApart'
    BY <2>1, <2>2 DEF ResolverInv, ResolverTyped, VideosAreGood, MediaApart
  <2>4. LinksSoFar'
    <3>1. \A k \in DOMAIN nodes : nodes[k] \in Replies
      BY ElementOfSeq, LinkStands DEF ResolverInv, ResolverTyped
    <3>2. \A k \in DOMAIN nodes : nodes[k].link < turn /\ nodes[k].link \in Nat
      BY <3>1 DEF ResolverInv, LinksSoFar, Replies
    <3> QED  BY <2>1, <2>2, <3>2 DEF ResolverInv, LinksSoFar
  <2>5. OneOwnerEach'
    BY <2>1 DEF ResolverInv, OneOwnerEach, Timed, Tried, InHand, VideosOf
  <2>6. PostIsWhole'
    <3>1. ASSUME NEW l \in 1 .. turn' - 1, media'[l] # <<>>  PROVE PostIsTold(l)'
      <4>1. media[turn] = <<>>  BY <2>1, <2>2 DEF ResolverInv, LinksSoFar
      <4>2. l \in 1 .. turn - 1 /\ media[l] # <<>>  BY <2>1, <2>2, <3>1, <4>1
      <4>3. l \in 1 .. turn' - 1 - 1 /\ PostIsTold(l)  BY <2>1, <2>2, <4>2 DEF ResolverInv, PostIsWhole
      <4>4. nodes' = nodes /\ media'[l] = media[l]  BY <2>1
      <4>5. nodes' = nodes \o <<>> /\ <<>> \in Seq(Replies)
        BY <4>4, ConcatEmptySeq DEF ResolverInv, ResolverTyped
      <4> DEFINE r == <<>>
      <4>6. r \in Seq(Replies) /\ nodes' = nodes \o r /\ \A k \in DOMAIN r : r[k].link = turn
        BY <4>5
      <4> HIDE DEF r
      <4> QED  BY <4>2, <4>3, <4>4, <4>6, ToldStays
    <3> QED  BY <3>1, Zenon DEF PostIsWhole
  <2> QED  BY <2>1, <2>3, <2>4, <2>5, <2>6 DEF ResolverInv
<1>4. CASE ReturnAnswer
  <2>1. /\ UNCHANGED <<mail, turn, try, media, disk, made, nodes, timers>>
        /\ spot = "next" /\ turn > Len(mail) /\ spot' = "done"
    BY <1>4 DEF ReturnAnswer
  <2>2. ResolverTyped' /\ VideosAreGood' /\ MediaApart' /\ LinksSoFar'
    BY <2>1 DEF ResolverInv, ResolverTyped, VideosAreGood, MediaApart, LinksSoFar
  <2>3. OneOwnerEach'
    BY <2>1 DEF ResolverInv, OneOwnerEach, Timed, Tried, InHand, VideosOf
  <2>4. PostIsWhole'
    BY <2>1, WholeStays
  <2> QED  BY <2>1, <2>2, <2>3, <2>4 DEF ResolverInv
<1> QED  BY <1>1, <1>2, <1>3, <1>4

\* An answer without files
LEMMA PlainAnswer ==
    ASSUME ResolverInv, turn <= Len(mail), spot \notin {"fetch", "media"},
           NEW r \in Seq({Heading, Sorry, Address}), Resolved(r),
           UNCHANGED <<mail, media, disk, made, timers>>
    PROVE  ResolverInv'
<1>1. /\ turn \in Nat /\ Len(r) \in Nat /\ DOMAIN r = 1 .. Len(r)
      /\ \A k \in DOMAIN r : r[k] \in {Heading, Sorry, Address}
  BY ElementOfSeq, LenProperties DEF ResolverInv, ResolverTyped
<1>2. \A x \in {Heading, Sorry, Address} : x \in Replies /\ x.link = turn /\ x.is # "video"
  BY <1>1 DEF Heading, Sorry, Address, Node, NoFile, Replies, FileNames
<1>3. r \in Seq(Replies)
  <2>1. \A k \in 1 .. Len(r) : r[k] \in Replies  BY <1>1, <1>2
  <2>2. r = [k \in 1 .. Len(r) |-> r[k]]  BY LenProperties
  <2> QED  BY <1>1, <2>1, <2>2
<1>4. \A k \in DOMAIN r : r[k].link = turn /\ r[k].is # "video"  BY <1>1, <1>2
<1>5. VideosOf(r) = {} /\ UNION {} = {} /\ Tried = {} /\ InHand = {}
  BY <1>4 DEF VideosOf, Tried, InHand
<1>6. /\ nodes' = nodes \o r /\ turn' = turn + 1 /\ spot' = "next" /\ try' = NoTry
      /\ timers' = timers \cup {}
  BY DEF Resolved
<1>7. media[turn] = <<>>
  BY LinkStands DEF ResolverInv, LinksSoFar
<1> QED  BY <1>3, <1>4, <1>5, <1>6, <1>7, LinkDone

LEMMA MissingKeeps == ASSUME ResolverInv, NotFound  PROVE ResolverInv'
<1>1. /\ spot = "search" /\ UNCHANGED <<mail, media, disk, made, timers>>
      /\ \E r \in {Missing, <<Heading>>, <<Heading, Address>>} : Resolved(r)
  BY DEF NotFound
<1>2. {Missing, <<Heading>>, <<Heading, Address>>} \subseteq Seq({Heading, Sorry, Address})
  <2>1. Missing \in {<<Heading, Sorry>>, <<Sorry>>}  BY DEF Missing
  <2>2. /\ <<Heading, Sorry>> \in Seq({Heading, Sorry, Address})
        /\ <<Sorry>> \in Seq({Heading, Sorry, Address}) /\ <<Heading>> \in Seq({Heading, Sorry, Address})
        /\ <<Heading, Address>> \in Seq({Heading, Sorry, Address})
    OBVIOUS
  <2> QED  BY <2>1, <2>2
<1>3. turn <= Len(mail)  BY <1>1 DEF ResolverInv, ResolverTyped
<1> QED  BY <1>1, <1>2, <1>3, PlainAnswer

\* What is known of a link decides how it is gone on with.
LEMMA DescribeKeeps == ASSUME ResolverInv, Describe  PROVE ResolverInv'
<1>1. /\ spot = "metadata" /\ UNCHANGED <<mail, disk, made, timers>>
      /\ turn <= Len(mail)
  BY DEF Describe, ResolverInv, ResolverTyped
<1>2. {<<Sorry>>, <<Heading>>, <<Heading, Address>>} \subseteq Seq({Heading, Sorry, Address})
  OBVIOUS
<1>3. CASE \E r \in {<<Sorry>>, <<Heading>>, <<Heading, Address>>} : Resolved(r) /\ UNCHANGED media
  BY <1>1, <1>2, <1>3, PlainAnswer
<1>4. CASE \E places : Search(places)
  BY <1>1, <1>4, GoesOn DEF Search
<1>5. CASE /\ \E post \in Posts : media' = [media EXCEPT ![turn] = post]
           /\ spot' = "media" /\ UNCHANGED <<turn, ladder, try, nodes>>
  <2>1. PICK post \in Posts : media' = [media EXCEPT ![turn] = post]
    BY <1>5
  <2>2. /\ turn \in DOMAIN mail /\ DOMAIN mail = 1 .. Len(mail) /\ Len(mail) \in Nat /\ turn \in Nat
        /\ media = [l \in DOMAIN mail |-> media[l]]
    BY <1>1, LinkStands DEF ResolverInv, ResolverTyped
  <2>3. /\ \A l \in DOMAIN mail : media'[l] = IF l = turn THEN post ELSE media[l]
        /\ media' = [l \in DOMAIN mail |-> media'[l]]
    BY <2>1, <2>2
  <2>4. /\ post \in Seq(PostMedia)
        /\ \A i \in DOMAIN post : post[i].at = "new" /\ post[i].dir = 0 /\ post[i].path = NoFile
    <3>1. PICK n \in 1 .. MaxMedia :
              post \in [1 .. n -> [kind : Kinds, at : {"new"}, dir : {0}, path : {NoFile}]]
      BY DEF Posts
    <3>2. MaxMedia \in Nat  BY ResolverAssumption DEF ResolverAssumption
    <3>3. n \in Nat  BY <3>2
    <3>4. NoFile \in FileNames  BY DEF NoFile, FileNames
    <3>5. [kind : Kinds, at : {"new"}, dir : {0}, path : {NoFile}] \subseteq PostMedia
      BY <3>4 DEF PostMedia
    <3>6. post \in [1 .. n -> PostMedia]  BY <3>1, <3>5
    <3>7. post \in Seq(PostMedia)  BY <3>3, <3>6
    <3>8. \A i \in DOMAIN post : post[i] \in [kind : Kinds, at : {"new"}, dir : {0}, path : {NoFile}]
      BY <3>1
    <3> QED  BY <3>7, <3>8
  <2>5. ResolverTyped'
    BY <1>1, <1>5, <2>2, <2>3, <2>4 DEF ResolverInv, ResolverTyped
  <2>6. InHand' = {} /\ Tried' = {} /\ InHand = {} /\ Tried = {}
    BY <1>1, <1>5, <2>2, <2>3, <2>4 DEF InHand, Tried, Holds
  <2>7. OneOwnerEach'
    BY <1>1, <1>5, <2>6 DEF ResolverInv, OneOwnerEach, Timed, VideosOf
  <2>8. MediaApart'
    <3>1. media'[turn] = post /\ made \in Nat  BY <2>2, <2>3 DEF ResolverInv, ResolverTyped
    <3> QED  BY <1>1, <1>5, <2>4, <3>1 DEF MediaApart, OwnMedium
  <2>9. VideosAreGood' /\ LinksSoFar'
    BY <1>1, <1>5, <2>2, <2>3 DEF ResolverInv, VideosAreGood, LinksSoFar
  <2>10. PostIsWhole'
    BY <1>5, <2>2, <2>3, WholeStays
  <2> QED  BY <1>1, <1>5, <2>5, <2>7, <2>8, <2>9, <2>10 DEF ResolverInv
<1> QED
  BY <1>3, <1>4, <1>5
  DEF Describe, DescribeVideo, DescribeClip, DescribeNote, DescribePost, DescribeTitle

-----------------------------------------------------------------------------
(* The links: the places of a video. *)

\* The directories and their owners, while the answer and the timers stay
LEMMA OwnersStay ==
    ASSUME ResolverInv, UNCHANGED <<nodes, timers>>,
           DOMAIN disk' = VideosOf(nodes) \cup Timed \cup Tried' \cup InHand',
           (Tried' \cup InHand') \cap (VideosOf(nodes) \cup Timed) = {}
    PROVE  OneOwnerEach'
<1>1. VideosOf(nodes)' = VideosOf(nodes) /\ Timed' = Timed  BY DEF Timed
<1> QED  BY <1>1 DEF ResolverInv, OneOwnerEach

\* The answer's videos have files that no step of a download touches.
LEMMA VideosStay ==
    ASSUME ResolverInv, nodes' = nodes,
           \A d \in VideosOf(nodes) : disk'[d] = disk[d]
    PROVE  VideosAreGood'
<1>1. \A k \in DOMAIN nodes : nodes[k].is = "video" => nodes[k].file.dir \in VideosOf(nodes)
  BY DEF VideosOf
<1> QED  BY <1>1 DEF ResolverInv, VideosAreGood

LEMMA TryBegins ==
    ASSUME ResolverInv, spot = "search", UNCHANGED <<mail, turn, media, nodes, timers>>,
           made' = made + 1, disk' = WithDirectory, spot' = "fetch", try' \in Tries, try'.dir = made + 1
    PROVE  ResolverInv'
<1>1. /\ made \in Nat /\ disk = [d \in DOMAIN disk |-> disk[d]] /\ turn <= Len(mail)
      /\ \A d \in DOMAIN disk : disk[d] \subseteq DiskFiles /\ d \in Nat /\ 1 <= d /\ d <= made
  BY DEF ResolverInv, ResolverTyped
<1>2. /\ DOMAIN disk' = DOMAIN disk \cup {made + 1} /\ disk' = [d \in DOMAIN disk' |-> disk'[d]]
      /\ disk'[made + 1] = {} /\ \A d \in DOMAIN disk : disk'[d] = disk[d]
  BY <1>1 DEF WithDirectory
<1>3. ResolverTyped'
  BY <1>1, <1>2 DEF ResolverInv, ResolverTyped
<1>4. Tried = {} /\ InHand = {} /\ Tried' = {made + 1} /\ InHand' = {}
  BY DEF Tried, InHand
<1>5. DOMAIN disk = VideosOf(nodes) \cup Timed
  BY <1>4 DEF ResolverInv, OneOwnerEach
<1>6. made + 1 \notin VideosOf(nodes) \cup Timed
  BY <1>1, <1>5
<1>7. OneOwnerEach'
  BY <1>2, <1>4, <1>5, <1>6, OwnersStay
<1>8. VideosAreGood'
  BY <1>2, <1>5, VideosStay
<1>9. MediaApart' /\ LinksSoFar'
  BY DEF ResolverInv, MediaApart, LinksSoFar
<1>10. PostIsWhole'  BY WholeStays
<1> QED  BY <1>3, <1>7, <1>8, <1>9, <1>10 DEF ResolverInv

LEMMA PlaceKeeps ==
    ASSUME ResolverInv,
           NEW source \in {"api", "formats", "douyin", "twitter", "candidate", "ytdlp"},
           NEW files \in SUBSET Seq({"picture", "sound", "whole"}), NEW asks, Place(source, files, asks)
    PROVE  ResolverInv'
<1>1. CASE UNCHANGED <<spot, try, disk, made>>
  BY <1>1, SameKeeps DEF Place
<1>2. CASE /\ made' = made + 1 /\ disk' = WithDirectory /\ spot' = "fetch"
           /\ \E parts \in files, urls \in Addresses(source) :
                try' = [source |-> source, dir |-> made + 1, parts |-> parts, urls |-> urls]
  <2>1. PICK parts \in files, urls \in Addresses(source) :
                try' = [source |-> source, dir |-> made + 1, parts |-> parts, urls |-> urls]
    BY <1>2
  <2>2. urls \in Nat /\ made + 1 \in Nat
    BY ResolverAssumption DEF ResolverAssumption, Addresses, ResolverInv, ResolverTyped
  <2>3. try' \in Tries /\ try'.dir = made + 1
    BY <2>1, <2>2 DEF Tries
  <2>4. spot = "search" /\ UNCHANGED <<mail, turn, media, nodes, timers>>
    BY DEF Place
  <2> QED  BY <1>2, <2>3, <2>4, TryBegins
<1> QED  BY <1>1, <1>2 DEF Place

LEMMA PlacesKeep ==
    ASSUME ResolverInv,
           TryAPI \/ TryFormats \/ TryDouyin \/ TryTwitter \/ TryCandidate \/ TryTool
    PROVE  ResolverInv'
<1> DEFINE Words == {"picture", "sound", "whole"}
<1>1. /\ <<"picture", "sound">> \in Seq(Words) /\ <<"picture">> \in Seq(Words)
      /\ <<"whole">> \in Seq(Words)
  OBVIOUS
<1>2. DashFiles \subseteq Seq(Words) /\ FormatFiles \subseteq Seq(Words) /\ {<<"whole">>} \subseteq Seq(Words)
  BY <1>1 DEF DashFiles, FormatFiles
<1>3. CASE TryAPI  BY <1>2, <1>3, PlaceKeeps DEF TryAPI
<1>4. CASE TryFormats  BY <1>2, <1>4, PlaceKeeps DEF TryFormats
<1>5. CASE TryDouyin  BY <1>2, <1>5, PlaceKeeps DEF TryDouyin
<1>6. CASE TryTwitter  BY <1>2, <1>6, PlaceKeeps DEF TryTwitter
<1>7. CASE TryCandidate  BY <1>2, <1>7, PlaceKeeps DEF TryCandidate
<1>8. CASE TryTool  BY <1>2, <1>8, PlaceKeeps DEF TryTool
<1> QED  BY <1>3, <1>4, <1>5, <1>6, <1>7, <1>8

\* The directory of the place that is tried
LEMMA TryStands ==
    ASSUME ResolverInv, spot = "fetch"
    PROVE  /\ Tried = {try.dir} /\ InHand = {} /\ try.dir \in DOMAIN disk /\ try.dir \notin VideosOf(nodes) \cup Timed
           /\ DOMAIN disk = VideosOf(nodes) \cup Timed \cup {try.dir}
           /\ disk[try.dir] \subseteq DiskFiles /\ try \in Tries /\ turn <= Len(mail)
           /\ disk = [d \in DOMAIN disk |-> disk[d]]
<1>1. Tried = {try.dir} /\ InHand = {}  BY DEF Tried, InHand
<1>2. DOMAIN disk = VideosOf(nodes) \cup Timed \cup {try.dir}
  BY <1>1 DEF ResolverInv, OneOwnerEach
<1>3. try.dir \notin VideosOf(nodes) \cup Timed
  BY <1>1 DEF ResolverInv, OneOwnerEach
<1>4. try \in Tries /\ turn <= Len(mail) /\ disk = [d \in DOMAIN disk |-> disk[d]]
      /\ \A d \in DOMAIN disk : disk[d] \subseteq DiskFiles
  BY DEF ResolverInv, ResolverTyped
<1> QED  BY <1>1, <1>2, <1>3, <1>4

LEMMA TryWrites ==
    ASSUME ResolverInv, spot = "fetch", UNCHANGED <<mail, turn, spot, media, made, nodes, timers>>,
           try' \in Tries, try'.dir = try.dir, NEW S \in SUBSET DiskFiles,
           disk' = [disk EXCEPT ![try.dir] = S]
    PROVE  ResolverInv'
<1>1. DOMAIN disk' = DOMAIN disk /\ \A d \in DOMAIN disk : disk'[d] = IF d = try.dir THEN S ELSE disk[d]
  BY TryStands
<1>2. disk' = [d \in DOMAIN disk' |-> disk'[d]]  BY <1>1, TryStands
<1>3. ResolverTyped'
  BY <1>1, <1>2 DEF ResolverInv, ResolverTyped
<1>4. Tried' = Tried /\ InHand' = InHand
  BY DEF Tried, InHand
<1>5. OneOwnerEach'
  BY <1>1, <1>4, TryStands, OwnersStay
<1>6. VideosAreGood'
  BY <1>1, TryStands, VideosStay
<1>7. MediaApart' /\ LinksSoFar'
  BY DEF ResolverInv, MediaApart, LinksSoFar
<1>8. PostIsWhole'  BY WholeStays
<1> QED  BY <1>3, <1>5, <1>6, <1>7, <1>8 DEF ResolverInv

LEMMA GiveUpKeeps ==
    ASSUME ResolverInv, spot = "fetch", GiveUpTry, UNCHANGED <<mail, turn, media, made, nodes, timers>>
    PROVE  ResolverInv'
<1>1. DOMAIN disk' = DOMAIN disk \ {try.dir} /\ \A d \in DOMAIN disk' : disk'[d] = disk[d]
  BY DEF GiveUpTry, Without
<1>2. disk' = [d \in DOMAIN disk' |-> disk'[d]]  BY DEF GiveUpTry, Without
<1>3. spot' = "search" /\ try' \in Tries  BY DEF GiveUpTry, NoTry, Tries
<1>4. ResolverTyped'
  BY <1>1, <1>2, <1>3, TryStands DEF ResolverInv, ResolverTyped
<1>5. Tried' = {} /\ InHand' = {}
  BY <1>3 DEF Tried, InHand
<1>6. OneOwnerEach'
  BY <1>1, <1>5, TryStands, OwnersStay
<1>7. VideosAreGood'
  BY <1>1, TryStands, VideosStay
<1>8. MediaApart' /\ LinksSoFar'
  BY <1>3 DEF ResolverInv, MediaApart, LinksSoFar
<1>9. PostIsWhole'  BY WholeStays
<1> QED  BY <1>3, <1>4, <1>6, <1>7, <1>8, <1>9 DEF ResolverInv

LEMMA FetchKeeps == ASSUME ResolverInv, Fetch  PROVE ResolverInv'
<1> DEFINE name == Head(try.parts)
<1>1. /\ spot = "fetch" /\ try.parts # <<>>
      /\ UNCHANGED <<mail, turn, ladder, media, made, nodes, timers>>
  BY DEF Fetch
<1>2. /\ try \in Tries /\ disk[try.dir] \subseteq DiskFiles
      /\ name \in {"picture", "sound", "whole"} /\ Tail(try.parts) \in Seq({"picture", "sound", "whole"})
  BY <1>1, TryStands, HeadTailProperties DEF Tries
<1> HIDE DEF name
<1>3. CASE \E state \in {"good", "big"}, urls \in Addresses(try.source) :
              /\ disk' = WithFile(name, state) /\ UNCHANGED spot
              /\ try' = [try EXCEPT !.parts = Tail(@), !.urls = urls]
  <2>1. PICK state \in {"good", "big"}, urls \in Addresses(try.source) :
              /\ disk' = WithFile(name, state)
              /\ try' = [try EXCEPT !.parts = Tail(@), !.urls = urls]
    BY <1>3
  <2>2. urls \in Nat
    BY ResolverAssumption DEF ResolverAssumption, Addresses
  <2>3. try' \in Tries /\ try'.dir = try.dir
    BY <1>2, <2>1, <2>2 DEF Tries
  <2> DEFINE S == {f \in disk[try.dir] : f.name # name} \cup {[name |-> name, state |-> state]}
  <2>4. disk' = [disk EXCEPT ![try.dir] = S]  BY <2>1 DEF WithFile
  <2>5. S \subseteq DiskFiles  BY <1>2 DEF DiskFiles
  <2> HIDE DEF S
  <2> QED  BY <1>1, <1>3, <2>3, <2>4, <2>5, TryWrites
<1>4. CASE /\ try.urls > 1 /\ disk' = [disk EXCEPT ![try.dir] = {f \in @ : f.name # name}]
           /\ try' = [try EXCEPT !.urls = @ - 1] /\ UNCHANGED spot
  <2> DEFINE S == {f \in disk[try.dir] : f.name # name}
  <2>1. disk' = [disk EXCEPT ![try.dir] = S]  BY <1>4
  <2>2. S \subseteq DiskFiles  BY <1>2
  <2>3. try' \in Tries /\ try'.dir = try.dir
    BY <1>2, <1>4 DEF Tries
  <2> HIDE DEF S
  <2> QED  BY <1>1, <1>4, <2>1, <2>2, <2>3, TryWrites
<1>5. CASE GiveUpTry
  BY <1>1, <1>5, GiveUpKeeps
<1> QED
  <2>1. CASE try.urls = 1 /\ GiveUpTry  BY <1>5, <2>1
  <2>2. CASE /\ ~expired /\ UNCHANGED spot
             /\ \E state \in IF try.source = "ytdlp" THEN {"good", "big"} ELSE {"good"} :
                          disk' = WithFile(name, state)
             /\ \E urls \in Addresses(try.source) :
                try' = [try EXCEPT !.parts = Tail(@), !.urls = urls]
    BY <1>3, <2>2
  <2> QED  BY <1>4, <2>1, <2>2 DEF Fetch, name

LEMMA MergeKeeps == ASSUME ResolverInv, Merge  PROVE ResolverInv'
<1>1. spot = "fetch" /\ UNCHANGED <<mail, turn, media, made, nodes, timers>>
  BY DEF Merge, Fetched
<1>2. CASE GiveUpTry
  BY <1>1, <1>2, GiveUpKeeps
<1>3. CASE /\ ~expired /\ \E state \in {"good", "big"} : disk' = WithFile("whole", state)
           /\ UNCHANGED <<spot, try>>
  <2>1. PICK state \in {"good", "big"} : disk' = WithFile("whole", state)
    BY <1>3
  <2> DEFINE S == {f \in disk[try.dir] : f.name # "whole"} \cup {[name |-> "whole", state |-> state]}
  <2>2. disk' = [disk EXCEPT ![try.dir] = S]  BY <2>1 DEF WithFile
  <2>3. S \subseteq DiskFiles  BY <1>1, TryStands DEF DiskFiles
  <2> HIDE DEF S
  <2> QED  BY <1>1, <1>3, <2>2, <2>3, TryStands, TryWrites
<1> QED  BY <1>2, <1>3 DEF Merge

LEMMA AcceptKeeps == ASSUME ResolverInv, Accept  PROVE ResolverInv'
<1>1. spot = "fetch" /\ UNCHANGED <<mail, media, made, timers>>
  BY DEF Accept, Fetched
<1>2. CASE GiveUpTry /\ UNCHANGED <<turn, nodes>>
  BY <1>1, <1>2, GiveUpKeeps
<1>3. CASE /\ Allowed /\ Resolved(<<Heading, Node("video", [dir |-> try.dir, name |-> OutputPath])>>)
           /\ UNCHANGED disk
  <2> DEFINE file == [dir |-> try.dir, name |-> OutputPath]
             v == Node("video", file)
             r == <<Heading, v>>
  <2>1. /\ nodes' = nodes \o r /\ turn' = turn + 1 /\ spot' = "next" /\ try' = NoTry
        /\ timers' = timers \cup {}
    BY <1>1, <1>3 DEF Resolved
  <2>2. turn \in Nat /\ turn <= Len(mail) /\ try.dir \in Nat
    BY <1>1, TryStands DEF ResolverInv, ResolverTyped, Tries
  <2>3. file \in FileNames /\ file # NoFile /\ file.dir = try.dir
    BY <2>2 DEF FileNames, OutputPath, NoFile
  <2>4. \E f \in disk[file.dir] : f.name = file.name /\ f.state = "good"
    BY <1>3 DEF Allowed
  <2> HIDE DEF file
  <2>5. v \in Replies /\ v.link = turn /\ v.is = "video" /\ v.file = file
    BY <2>2, <2>3 DEF Replies, Node
  <2>6. Heading \in Replies /\ Heading.link = turn /\ Heading.is = "text"
    BY <2>2 DEF Heading, Node, NoFile, Replies, FileNames
  <2> HIDE DEF v
  <2>7. r \in Seq(Replies) /\ DOMAIN r = {1, 2} /\ r[1] = Heading /\ r[2] = v
    BY <2>5, <2>6
  <2> HIDE DEF r
  <2>8. \A k \in DOMAIN r : r[k].link = turn
    BY <2>5, <2>6, <2>7
  <2>9. VideosOf(r) = {try.dir}
    BY <2>3, <2>5, <2>6, <2>7 DEF VideosOf
  <2>10. VideosOf(r) \cup UNION {} = Tried \cup InHand /\ VideosOf(r) \cap UNION {} = {}
    BY <1>1, <2>9, TryStands
  <2>11. \A k \in DOMAIN r : r[k].is = "video" =>
              /\ r[k].file # NoFile
              /\ \E f \in disk[r[k].file.dir] : f.name = r[k].file.name /\ f.state = "good"
    BY <2>3, <2>4, <2>5, <2>6, <2>7
  <2>12. media[turn] = <<>>
    BY <1>1, <2>2, LinkStands DEF ResolverInv, LinksSoFar
  <2> QED  BY <1>1, <1>3, <2>1, <2>2, <2>7, <2>8, <2>10, <2>11, <2>12, LinkDone
<1> QED  BY <1>2, <1>3 DEF Accept

-----------------------------------------------------------------------------
(* The links: the media of a post. *)

\* The media at work, and their directories
LEMMA MediaStand ==
    ASSUME ResolverInv, spot = "media"
    PROVE  /\ turn \in DOMAIN mail /\ media[turn] \in Seq(PostMedia) /\ Tried = {}
           /\ media = [l \in DOMAIN mail |-> media[l]]
           /\ InHand = {media[turn][i].dir : i \in {n \in DOMAIN media[turn] : Holds(media[turn][n])}}
           /\ DOMAIN disk = VideosOf(nodes) \cup Timed \cup InHand
           /\ InHand \cap (VideosOf(nodes) \cup Timed) = {}
           /\ \A i \in DOMAIN media[turn] : media[turn][i] \in PostMedia /\ OwnMedium(i, media[turn][i])
           /\ made \in Nat /\ disk = [d \in DOMAIN disk |-> disk[d]]
           /\ \A d \in DOMAIN disk : disk[d] \subseteq DiskFiles /\ d \in Nat /\ 1 <= d /\ d <= made
<1>1. turn <= Len(mail)  BY DEF ResolverInv, ResolverTyped
<1>2. turn \in DOMAIN mail /\ media[turn] \in Seq(PostMedia)
  BY <1>1, LinkStands
<1>3. Tried = {}  BY DEF Tried
<1>4. InHand = {media[turn][i].dir : i \in {n \in DOMAIN media[turn] : Holds(media[turn][n])}}
  BY DEF InHand
<1>5. DOMAIN disk = VideosOf(nodes) \cup Timed \cup InHand /\ InHand \cap (VideosOf(nodes) \cup Timed) = {}
  BY <1>3 DEF ResolverInv, OneOwnerEach
<1>6. \A i \in DOMAIN media[turn] : media[turn][i] \in PostMedia /\ OwnMedium(i, media[turn][i])
  BY <1>2, ElementOfSeq DEF ResolverInv, MediaApart
<1>7. /\ media = [l \in DOMAIN mail |-> media[l]]
      /\ made \in Nat /\ disk = [d \in DOMAIN disk |-> disk[d]]
      /\ \A d \in DOMAIN disk : disk[d] \subseteq DiskFiles /\ d \in Nat /\ 1 <= d /\ d <= made
  BY DEF ResolverInv, ResolverTyped
<1> QED  BY <1>2, <1>3, <1>4, <1>5, <1>6, <1>7

\* A goroutine changes its medium and its directory.
LEMMA MediumChanges ==
    ASSUME ResolverInv, spot = "media", UNCHANGED <<mail, turn, spot, try, nodes, timers>>,
           NEW i \in DOMAIN media[turn], NEW m \in PostMedia,
           media' = [media EXCEPT ![turn] = [@ EXCEPT ![i] = m]],
           disk' = [d \in DOMAIN disk' |-> disk'[d]],
           \A d \in DOMAIN disk' : disk'[d] \subseteq DiskFiles /\ d \in Nat /\ 1 <= d /\ d <= made',
           \A d \in DOMAIN disk \ {m.dir} : d \in DOMAIN disk' /\ disk'[d] = disk[d],
           \A d \in DOMAIN disk' : d \in DOMAIN disk \/ d = m.dir,
           m.dir \in DOMAIN disk' <=> Holds(m),
           m.dir \in DOMAIN disk => Holds(media[turn][i]) /\ media[turn][i].dir = m.dir,
           \/ m.dir = media[turn][i].dir /\ made' = made
           \/ media[turn][i].dir = 0 /\ m.dir = made + 1 /\ made' = made + 1,
           m.at = "new" => m.dir = 0, m.at = "loading" => m.dir # 0,
           m.path # NoFile => /\ m.at = "done" /\ m.dir # 0 /\ m.path = [dir |-> m.dir, name |-> "whole"]
                              /\ disk'[m.dir] = {[name |-> "whole", state |-> "good"]}
    PROVE  ResolverInv'
<1> DEFINE post == media[turn]
           post2 == media'[turn]
<1>1. /\ turn \in DOMAIN mail /\ post \in Seq(PostMedia)
      /\ media = [l \in DOMAIN mail |-> media[l]]
      /\ \A n \in DOMAIN post : post[n] \in PostMedia /\ OwnMedium(n, post[n])
  BY MediaStand
<1>2. /\ \A l \in DOMAIN mail : l # turn => media'[l] = media[l]
      /\ post2 = [post EXCEPT ![i] = m] /\ media' = [l \in DOMAIN mail |-> media'[l]]
  BY <1>1
<1>3. /\ DOMAIN post2 = DOMAIN post /\ post2 \in Seq(PostMedia)
      /\ \A n \in DOMAIN post : post2[n] = IF n = i THEN m ELSE post[n]
  <2>1. DOMAIN post = 1 .. Len(post) /\ Len(post) \in Nat  BY <1>1, LenProperties
  <2>2. post = [n \in DOMAIN post |-> post[n]]  BY <1>1, <2>1
  <2> HIDE DEF post
  <2>3. /\ post2 = [n \in DOMAIN post |-> post2[n]]
        /\ \A n \in DOMAIN post : post2[n] = IF n = i THEN m ELSE post[n]
    BY <1>2, <2>2
  <2> HIDE DEF post2
  <2>4. \A n \in 1 .. Len(post) : post2[n] \in PostMedia  BY <1>1, <2>1, <2>3
  <2> QED  BY <2>1, <2>3, <2>4
<1>4. ResolverTyped'
  <2>1. \A l \in DOMAIN mail : media'[l] \in Seq(PostMedia)
    BY <1>1, <1>2, <1>3 DEF ResolverInv, ResolverTyped
  <2> QED  BY <1>2, <2>1 DEF ResolverInv, ResolverTyped
<1> DEFINE L == {post[n].dir : n \in {k \in DOMAIN post : Holds(post[k])}}
           L2 == {post2[n].dir : n \in {k \in DOMAIN post : Holds(post2[k])}}
           A == VideosOf(nodes) \cup Timed
<1>5. Tried' = {} /\ InHand' = L2 /\ InHand = L
  BY <1>3 DEF Tried, InHand, Holds
<1>6. \A n \in DOMAIN post : /\ post[n].dir \in Nat /\ post[n].dir <= made
                             /\ n # i /\ m.dir # 0 => post[n].dir # m.dir
  <2> TAKE n \in DOMAIN post
  <2>1. OwnMedium(n, post[n]) /\ OwnMedium(i, post[i]) /\ post[n] \in PostMedia  BY <1>1
  <2>2. post[n].dir \in Nat /\ made \in Nat  BY <2>1, MediaStand DEF PostMedia
  <2>3. post[n].dir <= made  BY <2>1 DEF OwnMedium
  <2>4. n # i /\ post[i].dir # 0 => post[n].dir # post[i].dir  BY <2>1 DEF OwnMedium
  <2> QED  BY <2>2, <2>3, <2>4
<1>7. m.dir \in Nat /\ m.dir <= made' /\ made' \in Nat /\ made <= made' /\ made \in Nat
  BY <1>6, MediaStand DEF PostMedia
<1>8. ASSUME NEW n \in DOMAIN post, n # i, Holds(post[n])
      PROVE  post[n].dir \in DOMAIN disk /\ post[n].dir # m.dir
  <2>1. post[n].dir \in DOMAIN disk /\ \A d \in DOMAIN disk : 1 <= d /\ d \in Nat
    BY <1>8, MediaStand
  <2>2. post[n].dir # 0  BY <2>1
  <2>3. m.dir = 0 \/ post[n].dir # m.dir  BY <1>6, <1>8
  <2> QED  BY <2>1, <2>2, <2>3
<1>9. DOMAIN disk = A \cup L /\ L \cap A = {}
  BY <1>5, MediaStand
<1>10. m.dir \notin A
  <2>1. CASE m.dir \in DOMAIN disk
    <3>1. Holds(post[i]) /\ post[i].dir = m.dir  BY <2>1
    <3>2. m.dir \in L  BY <3>1
    <3> QED  BY <1>9, <3>2
  <2>2. CASE m.dir \notin DOMAIN disk
    BY <1>9, <2>2
  <2> QED  BY <2>1, <2>2
<1>11. DOMAIN disk' = A \cup L2 /\ L2 \cap A = {}
  <2>1. ASSUME NEW d \in DOMAIN disk'  PROVE d \in A \cup L2
    <3>1. CASE d = m.dir
      <4>1. Holds(post2[i]) /\ post2[i].dir = d  BY <1>3, <2>1, <3>1
      <4> QED  BY <4>1
    <3>2. CASE d # m.dir /\ d \in L
      <4>1. PICK n \in DOMAIN post : Holds(post[n]) /\ d = post[n].dir  BY <3>2
      <4>2. CASE n # i
        <5>1. post2[n] = post[n]  BY <1>3, <4>2
        <5> QED  BY <4>1, <5>1
      <4>3. CASE n = i
        <5>1. post[i].dir \in DOMAIN disk /\ 0 \notin DOMAIN disk  BY <1>9, <3>2, <4>1, <4>3, MediaStand
        <5>2. post[i].dir = m.dir  BY <5>1
        <5> QED  BY <3>2, <4>1, <4>3, <5>2
      <4> QED  BY <4>2, <4>3
    <3>3. CASE d # m.dir /\ d \notin L
      BY <1>9, <2>1, <3>3
    <3> QED  BY <3>1, <3>2, <3>3
  <2>2. ASSUME NEW d \in L2  PROVE d \in DOMAIN disk' /\ d \notin A
    <3>1. PICK n \in DOMAIN post : Holds(post2[n]) /\ d = post2[n].dir  BY <2>2
    <3>2. CASE n = i
      <4>1. d = m.dir /\ Holds(m)  BY <1>3, <3>1, <3>2
      <4> QED  BY <1>10, <4>1
    <3>3. CASE n # i
      <4>1. Holds(post[n]) /\ d = post[n].dir  BY <1>3, <3>1, <3>3
      <4>2. d \in DOMAIN disk \ {m.dir} /\ d \in L  BY <1>8, <3>3, <4>1
      <4> QED  BY <1>9, <4>2
    <3> QED  BY <3>2, <3>3
  <2>3. ASSUME NEW d \in A  PROVE d \in DOMAIN disk'
    <3>1. d \in DOMAIN disk \ {m.dir}  BY <1>9, <1>10, <2>3
    <3> QED  BY <3>1
  <2> HIDE DEF L, L2, A
  <2> QED  BY <2>1, <2>2, <2>3
<1>12. OneOwnerEach'
  BY <1>5, <1>11, OwnersStay
<1>13. VideosAreGood'
  <2>1. ASSUME NEW d \in VideosOf(nodes)  PROVE disk'[d] = disk[d]
    <3>1. d \in DOMAIN disk \ {m.dir}  BY <1>9, <1>10, <2>1
    <3> QED  BY <3>1
  <2> QED  BY <2>1, VideosStay
<1>14. MediaApart'
  <2>1. ASSUME NEW n \in DOMAIN post
        PROVE  /\ post2[n].at = "new" => post2[n].dir = 0
               /\ post2[n].at = "loading" => post2[n].dir # 0
               /\ post2[n].dir <= made'
               /\ post2[n].path # NoFile =>
                    /\ post2[n].at = "done" /\ post2[n].dir # 0
                    /\ post2[n].path = [dir |-> post2[n].dir, name |-> "whole"]
                    /\ disk'[post2[n].dir] = {[name |-> "whole", state |-> "good"]}
               /\ \A k \in DOMAIN post2 : k # n /\ post2[n].dir # 0 => post2[k].dir # post2[n].dir
    <3>1. \A k \in DOMAIN post : post2[k] = IF k = i THEN m ELSE post[k]  BY <1>3
    <3>2. CASE n = i
      <4>1. \A k \in DOMAIN post : k # n /\ m.dir # 0 => post2[k].dir # m.dir  BY <1>6, <3>1, <3>2
      <4>2. post2[n] = m  BY <3>1, <3>2
      <4>3. \A k \in DOMAIN post2 : k # n /\ m.dir # 0 => post2[k].dir # m.dir  BY <1>3, <4>1
      <4>4. m.dir <= made'  BY <1>7
      <4> HIDE DEF post, post2
      <4> QED  BY <4>2, <4>3, <4>4
    <3>3. CASE n # i
      <4> DEFINE q == post[n]
      <4>1. post2[n] = q /\ OwnMedium(n, q) /\ q.dir \in Nat /\ q.dir <= made
        BY <1>1, <1>6, <3>1, <3>3
      <4>2. /\ q.at = "new" => q.dir = 0
            /\ q.at = "loading" => q.dir # 0
            /\ q.path # NoFile => /\ q.at = "done" /\ q.dir # 0 /\ q.path = [dir |-> q.dir, name |-> "whole"]
                                  /\ disk[q.dir] = {[name |-> "whole", state |-> "good"]}
            /\ \A k \in DOMAIN post : k # n /\ q.dir # 0 => post[k].dir # q.dir
        BY <4>1 DEF OwnMedium
      <4>3. q.path # NoFile => disk'[q.dir] = disk[q.dir]
        <5>1. ASSUME q.path # NoFile  PROVE q.dir \in DOMAIN disk \ {m.dir}
          BY <1>8, <3>3, <5>1 DEF Holds
        <5> QED  BY <5>1
      <4>4. \A k \in DOMAIN post2 : k # n /\ q.dir # 0 => post2[k].dir # q.dir
        <5> TAKE k \in DOMAIN post2
        <5>1. CASE k = i
          <6>1. q.dir = 0 \/ m.dir # q.dir \/ m.dir = 0  BY <1>6, <3>3
          <6> QED  BY <1>3, <5>1, <6>1
        <5>2. CASE k # i
          BY <1>3, <3>1, <4>2, <5>2
        <5> QED  BY <5>1, <5>2
      <4>5. q.dir <= made'  BY <1>7, <4>1
      <4> HIDE DEF post, post2, q
      <4> QED  BY <4>1, <4>2, <4>3, <4>4, <4>5
    <3> QED  BY <3>2, <3>3
  <2>2. DOMAIN post2 = DOMAIN post  BY <1>3
  <2> QED  BY <2>1, <2>2 DEF MediaApart, OwnMedium
<1>15. LinksSoFar'
  BY <1>2 DEF ResolverInv, LinksSoFar
<1>16. PostIsWhole'
  <2>1. \A l \in 1 .. turn - 1 : media'[l] = media[l]
    <3>1. DOMAIN mail = 1 .. Len(mail) /\ turn <= Len(mail) /\ turn \in Nat /\ Len(mail) \in Nat
      BY LinkStands DEF ResolverInv, ResolverTyped
    <3> QED  BY <1>2, <3>1
  <2> QED  BY <2>1, WholeStays
<1> QED  BY <1>4, <1>12, <1>13, <1>14, <1>15, <1>16 DEF ResolverInv

LEMMA MediumStarts ==
    ASSUME ResolverInv, NEW i \in DOMAIN media[turn], StartMedium(i)  PROVE ResolverInv'
<1> DEFINE post == media[turn]
<1>1. /\ spot = "media" /\ post[i].at = "new" /\ UNCHANGED <<mail, turn, spot, try, nodes, timers>>
  BY DEF StartMedium
<1>2. /\ turn \in DOMAIN mail /\ post[i] \in PostMedia /\ post[i].dir = 0 /\ post[i].path = NoFile
      /\ media = [l \in DOMAIN mail |-> media[l]] /\ post \in Seq(PostMedia)
  BY <1>1, MediaStand DEF OwnMedium
<1>3. /\ made \in Nat /\ disk = [d \in DOMAIN disk |-> disk[d]]
      /\ \A d \in DOMAIN disk : disk[d] \subseteq DiskFiles /\ d \in Nat /\ 1 <= d /\ d <= made
  BY <1>1, MediaStand
<1>4. CASE /\ media' = [media EXCEPT ![turn][i].at = "loading", ![turn][i].dir = made + 1]
           /\ made' = made + 1 /\ disk' = WithDirectory
  <2> DEFINE m == [post[i] EXCEPT !.at = "loading", !.dir = made + 1]
  <2>1. /\ m \in PostMedia /\ m.at = "loading" /\ m.dir = made + 1 /\ m.path = NoFile
    <3>1. post[i] \in PostMedia /\ made + 1 \in Nat /\ post[i].path = NoFile  BY <1>2, <1>3
    <3> HIDE DEF post
    <3> QED  BY <3>1 DEF PostMedia
  <2>2. media' = [media EXCEPT ![turn] = [@ EXCEPT ![i] = m]]
    BY <1>2, <1>4
  <2>3. /\ DOMAIN disk' = DOMAIN disk \cup {made + 1} /\ disk' = [d \in DOMAIN disk' |-> disk'[d]]
        /\ disk'[made + 1] = {} /\ \A d \in DOMAIN disk : disk'[d] = disk[d]
    BY <1>3, <1>4 DEF WithDirectory
  <2> HIDE DEF m
  <2>4. Holds(m)  BY <2>1 DEF Holds
  <2>5. made + 1 \notin DOMAIN disk /\ made + 1 # 0 /\ made' \in Nat  BY <1>3, <1>4
  <2>6. /\ \A d \in DOMAIN disk \ {m.dir} : d \in DOMAIN disk' /\ disk'[d] = disk[d]
        /\ \A d \in DOMAIN disk' : d \in DOMAIN disk \/ d = m.dir
        /\ m.dir \in DOMAIN disk' <=> Holds(m)
        /\ m.dir \in DOMAIN disk => Holds(media[turn][i]) /\ media[turn][i].dir = m.dir
        /\ media[turn][i].dir = 0 /\ m.dir = made + 1 /\ made' = made + 1
    BY <1>2, <1>4, <2>1, <2>3, <2>4, <2>5
  <2>7. \A d \in DOMAIN disk' : disk'[d] \subseteq DiskFiles /\ d \in Nat /\ 1 <= d /\ d <= made'
    BY <1>3, <1>4, <2>3, <2>5
  <2>8. m.at # "new" /\ m.path = NoFile /\ m.dir # 0  BY <2>1, <2>5
  <2> QED
    BY <1>1, <2>1, <2>2, <2>3, <2>6, <2>7, <2>8, MediumChanges
<1>5. CASE media' = [media EXCEPT ![turn][i].at = "done"] /\ UNCHANGED <<made, disk>>
  <2> DEFINE m == [post[i] EXCEPT !.at = "done"]
  <2>1. m \in PostMedia /\ m.at = "done" /\ m.dir = 0 /\ m.path = NoFile
    BY <1>2 DEF PostMedia
  <2>2. media' = [media EXCEPT ![turn] = [@ EXCEPT ![i] = m]]
    BY <1>2, <1>5
  <2> HIDE DEF m
  <2>3. ~Holds(m) /\ m.dir \notin DOMAIN disk  BY <1>3, <2>1 DEF Holds
  <2>4. /\ \A d \in DOMAIN disk \ {m.dir} : d \in DOMAIN disk' /\ disk'[d] = disk[d]
        /\ \A d \in DOMAIN disk' : d \in DOMAIN disk \/ d = m.dir
        /\ m.dir \in DOMAIN disk' <=> Holds(m)
        /\ m.dir \in DOMAIN disk => Holds(media[turn][i]) /\ media[turn][i].dir = m.dir
        /\ m.dir = media[turn][i].dir /\ made' = made
        /\ disk' = [d \in DOMAIN disk' |-> disk'[d]]
        /\ \A d \in DOMAIN disk' : disk'[d] \subseteq DiskFiles /\ d \in Nat /\ 1 <= d /\ d <= made'
    BY <1>2, <1>3, <1>5, <2>1, <2>3
  <2>5. m.at # "new" /\ m.at # "loading" /\ m.path = NoFile  BY <2>1
  <2> QED
    BY <1>1, <2>1, <2>2, <2>4, <2>5, MediumChanges
<1> QED  BY <1>4, <1>5 DEF StartMedium

LEMMA MediumEnds ==
    ASSUME ResolverInv, NEW i \in DOMAIN media[turn], EndMedium(i)  PROVE ResolverInv'
<1> DEFINE post == media[turn]
           d0 == post[i].dir
<1>1. /\ spot = "media" /\ post[i].at = "loading"
      /\ UNCHANGED <<mail, turn, spot, try, made, nodes, timers>>
  BY DEF EndMedium
<1>2. /\ turn \in DOMAIN mail /\ post[i] \in PostMedia /\ d0 # 0 /\ post[i].path = NoFile
      /\ media = [l \in DOMAIN mail |-> media[l]] /\ post \in Seq(PostMedia) /\ d0 \in Nat
  BY <1>1, MediaStand DEF OwnMedium, PostMedia
<1>3. /\ made \in Nat /\ disk = [d \in DOMAIN disk |-> disk[d]]
      /\ \A d \in DOMAIN disk : disk[d] \subseteq DiskFiles /\ d \in Nat /\ 1 <= d /\ d <= made
  BY <1>1, MediaStand
<1>4. Holds(post[i]) /\ d0 \in DOMAIN disk
  <2>1. Holds(post[i])  BY <1>1 DEF Holds
  <2>2. d0 \in InHand  BY <1>1, <2>1, MediaStand
  <2> QED  BY <1>1, <2>1, <2>2, MediaStand
<1>5. CASE /\ disk' = [disk EXCEPT ![d0] = {[name |-> "whole", state |-> "good"]}]
           /\ media' = [media EXCEPT ![turn][i].at = "done",
                                     ![turn][Slot(i)].path = [dir |-> d0, name |-> "whole"]]
  <2> DEFINE p == [dir |-> d0, name |-> "whole"]
             m == [post[i] EXCEPT !.at = "done", !.path = p]
             S == {[name |-> "whole", state |-> "good"]}
  <2>1. p \in FileNames /\ p # NoFile  BY <1>2 DEF FileNames, NoFile
  <2>2. m \in PostMedia /\ m.at = "done" /\ m.dir = d0 /\ m.path = p
    BY <1>2, <2>1 DEF PostMedia
  <2>3. media' = [media EXCEPT ![turn] = [@ EXCEPT ![i] = m]]
    BY <1>2, <1>5 DEF Slot
  <2>4. S \subseteq DiskFiles  BY DEF DiskFiles
  <2>5. /\ DOMAIN disk' = DOMAIN disk /\ disk' = [d \in DOMAIN disk' |-> disk'[d]]
        /\ disk'[d0] = S /\ \A d \in DOMAIN disk : d # d0 => disk'[d] = disk[d]
    BY <1>3, <1>4, <1>5
  <2>6. Holds(m)  BY <2>1, <2>2 DEF Holds
  <2>7. m.path = [dir |-> m.dir, name |-> "whole"] /\ disk'[m.dir] = {[name |-> "whole", state |-> "good"]}
    BY <2>2, <2>5
  <2> HIDE DEF m, S
  <2>8. \A d \in DOMAIN disk' : disk'[d] \subseteq DiskFiles /\ d \in Nat /\ 1 <= d /\ d <= made'
    BY <1>1, <1>3, <2>4, <2>5
  <2>9. /\ \A d \in DOMAIN disk \ {m.dir} : d \in DOMAIN disk' /\ disk'[d] = disk[d]
        /\ \A d \in DOMAIN disk' : d \in DOMAIN disk \/ d = m.dir
        /\ m.dir \in DOMAIN disk' <=> Holds(m)
        /\ m.dir \in DOMAIN disk => Holds(media[turn][i]) /\ media[turn][i].dir = m.dir
        /\ m.dir = media[turn][i].dir /\ made' = made
    BY <1>1, <1>4, <2>2, <2>5, <2>6
  <2>10. m.at # "new" /\ m.at # "loading" /\ m.dir # 0  BY <1>2, <2>2
  <2> QED
    BY <1>1, <2>2, <2>3, <2>5, <2>7, <2>8, <2>9, <2>10, MediumChanges
<1>6. CASE media' = [media EXCEPT ![turn][i].at = "done"] /\ disk' = Without(d0)
  <2> DEFINE m == [post[i] EXCEPT !.at = "done"]
  <2>1. m \in PostMedia /\ m.at = "done" /\ m.dir = d0 /\ m.path = NoFile
    BY <1>2 DEF PostMedia
  <2>2. media' = [media EXCEPT ![turn] = [@ EXCEPT ![i] = m]]
    BY <1>2, <1>6
  <2> HIDE DEF m
  <2>3. /\ DOMAIN disk' = DOMAIN disk \ {d0} /\ disk' = [d \in DOMAIN disk' |-> disk'[d]]
        /\ \A d \in DOMAIN disk' : disk'[d] = disk[d]
    BY <1>6 DEF Without
  <2>4. ~Holds(m)  BY <2>1 DEF Holds
  <2>9. /\ \A d \in DOMAIN disk \ {m.dir} : d \in DOMAIN disk' /\ disk'[d] = disk[d]
        /\ \A d \in DOMAIN disk' : d \in DOMAIN disk \/ d = m.dir
        /\ m.dir \in DOMAIN disk' <=> Holds(m)
        /\ m.dir \in DOMAIN disk => Holds(media[turn][i]) /\ media[turn][i].dir = m.dir
        /\ m.dir = media[turn][i].dir /\ made' = made
        /\ \A d \in DOMAIN disk' : disk'[d] \subseteq DiskFiles /\ d \in Nat /\ 1 <= d /\ d <= made'
    BY <1>1, <1>3, <1>4, <2>1, <2>3, <2>4
  <2>10. m.at # "new" /\ m.at # "loading" /\ m.dir # 0  BY <1>2, <2>1
  <2> QED
    BY <1>1, <2>1, <2>2, <2>3, <2>9, <2>10, MediumChanges
<1> QED  BY <1>5, <1>6 DEF EndMedium

LEMMA RemoveKeeps ==
    ASSUME ResolverInv, NEW pictures \in timers, RemovePictures(pictures)  PROVE ResolverInv'
<1>1. /\ timers' = timers \ {pictures} /\ disk' = [d \in DOMAIN disk \ pictures |-> disk[d]]
      /\ UNCHANGED <<mail, turn, spot, permission, ladder, try, media, made, nodes, expired>>
  BY DEF RemovePictures
<1>2. DOMAIN disk' = DOMAIN disk \ pictures /\ disk' = [d \in DOMAIN disk' |-> disk'[d]]
      /\ \A d \in DOMAIN disk' : disk'[d] = disk[d]
  BY <1>1
<1>3. ResolverTyped'
  BY <1>1, <1>2 DEF ResolverInv, ResolverTyped
<1> DEFINE U == Timed
           U2 == Timed'
           V == VideosOf(nodes)
           H == Tried \cup InHand
<1>4. U2 = U \ pictures /\ pictures \subseteq U
  <2>1. \A p \in timers : p = pictures \/ p \cap pictures = {}
    BY DEF ResolverInv, OneOwnerEach
  <2>2. ASSUME NEW x  PROVE x \in U2 <=> x \in U \ pictures
    <3>1. x \in U2 <=> \E p \in timers \ {pictures} : x \in p  BY <1>1 DEF Timed
    <3>2. x \in U <=> \E p \in timers : x \in p  BY DEF Timed
    <3> HIDE DEF U, U2
    <3> QED  BY <2>1, <3>1, <3>2
  <2>3. pictures \subseteq U  BY DEF Timed
  <2> HIDE DEF U, U2
  <2> QED  BY <2>2, <2>3
<1>5. /\ DOMAIN disk = V \cup U \cup H /\ V \cap U = {} /\ H \cap (V \cup U) = {}
      /\ \A p, q \in timers : p = q \/ p \cap q = {}
  <2>1. OneOwnerEach  BY DEF ResolverInv
  <2>2. DOMAIN disk = V \cup U \cup H  BY <2>1 DEF OneOwnerEach
  <2> QED  BY <2>1, <2>2, Zenon DEF OneOwnerEach
<1>6. VideosOf(nodes)' = V /\ (Tried \cup InHand)' = H
  BY <1>1 DEF Tried, InHand
<1>7. /\ DOMAIN disk' = V \cup U2 \cup H /\ V \cap U2 = {} /\ H \cap (V \cup U2) = {}
      /\ pictures \cap V = {}
  <2> HIDE DEF V, U, U2, H
  <2> QED  BY <1>2, <1>4, <1>5
<1>8. OneOwnerEach'
  <2>1. DOMAIN disk' = (VideosOf(nodes) \cup Timed \cup Tried \cup InHand)'
    <3>1. (VideosOf(nodes) \cup Timed \cup Tried \cup InHand)' = V \cup U2 \cup H
      BY <1>6
    <3> QED  BY <1>7, <3>1
  <2>2. \A p, q \in timers' : p = q \/ p \cap q = {}  BY <1>1, <1>5
  <2>3. (VideosOf(nodes) \cap Timed)' = {} /\ ((Tried \cup InHand) \cap (VideosOf(nodes) \cup Timed))' = {}
    BY <1>6, <1>7
  <2> QED  BY <2>1, <2>2, <2>3 DEF OneOwnerEach
<1>9. VideosAreGood'
  <2>1. \A d \in V : disk'[d] = disk[d]
    <3>1. V \subseteq DOMAIN disk'
      <4> HIDE DEF V, U, U2, H
      <4> QED  BY <1>7
    <3> QED  BY <1>2, <3>1
  <2> QED  BY <1>1, <2>1, VideosStay
<1>10. MediaApart'
  <2>1. ASSUME spot = "media", NEW i \in DOMAIN media[turn], media[turn][i].path # NoFile
        PROVE  disk'[media[turn][i].dir] = disk[media[turn][i].dir]
    <3>1. media[turn][i].dir \in InHand
      BY <2>1, MediaStand DEF Holds
    <3>2. media[turn][i].dir \in DOMAIN disk'
      <4>1. media[turn][i].dir \in H  BY <3>1
      <4> HIDE DEF V, U, U2, H
      <4> QED  BY <1>7, <4>1
    <3> QED  BY <1>2, <3>2
  <2>2. ASSUME spot = "media", NEW i \in DOMAIN media[turn]  PROVE OwnMedium(i, media[turn][i])'
    <3> DEFINE q == media[turn][i]
    <3>1. OwnMedium(i, q)  BY <2>2 DEF ResolverInv, MediaApart
    <3>2. q.path # NoFile => disk'[q.dir] = disk[q.dir]  BY <2>1, <2>2
    <3>3. media'[turn'] = media[turn] /\ made' = made  BY <1>1
    <3>4. media[turn][i]' = q  BY <1>1
    <3> HIDE DEF q
    <3> QED  BY <3>1, <3>2, <3>3, <3>4 DEF OwnMedium
  <2> QED  BY <1>1, <2>2 DEF MediaApart
<1>11. LinksSoFar'
  BY <1>1 DEF ResolverInv, LinksSoFar
<1>12. PostIsWhole'  BY <1>1, WholeStays
<1>13. (spot = "done" => turn > Len(mail))'  BY <1>1 DEF ResolverInv
<1> QED  BY <1>3, <1>8, <1>9, <1>10, <1>11, <1>12, <1>13 DEF ResolverInv

\* A set of numbers has a least one: induction, for sets.
LEMMA LeastOf ==
    ASSUME NEW T, T \subseteq Nat, T # {}
    PROVE  \E x \in T : \A y \in T : ~(y < x)
<1>1. \E x \in T : \A y \in T : ~(<<y, x>> \in OpToRel(<, Nat))
  BY NatLessThanWellFounded, WFMin
<1> QED  BY <1>1 DEF OpToRel

LEMMA Counting ==
    ASSUME NEW T, 0 \in T, \A n \in T \cap Nat : n + 1 \in T
    PROVE  Nat \subseteq T
<1> SUFFICES ASSUME Nat \ T # {}  PROVE FALSE
  OBVIOUS
<1>1. PICK x \in Nat \ T : \A y \in Nat \ T : ~(y < x)
  BY LeastOf
<1>2. x # 0 /\ x - 1 \in Nat /\ x - 1 < x /\ x - 1 + 1 = x  OBVIOUS
<1>3. x - 1 \in T  BY <1>1, <1>2
<1> QED  BY <1>1, <1>2, <1>3

\* g is what Gathered has found after each of the first n media.
More(had, post, i) == IF post[i].path = NoFile THEN had ELSE Append(had, i)
Gathering(g, post, n) ==
    g = [i \in 0 .. n |-> IF i = 0 THEN <<>> ELSE More(g[i - 1], post, i)]

LEMMA GatheringExtends ==
    ASSUME NEW post, NEW n \in Nat, NEW g, Gathering(g, post, n)
    PROVE  \E e : Gathering(e, post, n + 1)
<1> DEFINE e == [i \in 0 .. n + 1 |-> IF i = n + 1 THEN More(g[n], post, i) ELSE g[i]]
<1>1. ASSUME NEW i \in 0 .. n + 1
      PROVE  e[i] = IF i = 0 THEN <<>> ELSE More(e[i - 1], post, i)
  <2>1. CASE i = n + 1
    <3>1. i # 0 /\ i - 1 = n /\ n \in 0 .. n + 1 /\ n # n + 1  BY <2>1
    <3> QED  BY <2>1, <3>1
  <2>2. CASE i # n + 1 /\ i = 0
    <3>1. 0 \in 0 .. n  OBVIOUS
    <3> QED  BY <2>2, <3>1 DEF Gathering
  <2>3. CASE i # n + 1 /\ i # 0
    <3>1. i \in 0 .. n /\ i - 1 \in 0 .. n /\ i - 1 \in 0 .. n + 1 /\ i - 1 # n + 1  BY <2>3
    <3>2. g[i] = More(g[i - 1], post, i)  BY <2>3, <3>1 DEF Gathering
    <3> QED  BY <2>3, <3>1, <3>2
  <2> QED  BY <2>1, <2>2, <2>3
<1>2. e = [i \in 0 .. n + 1 |-> IF i = 0 THEN <<>> ELSE More(e[i - 1], post, i)]
  BY <1>1
<1> HIDE DEF e
<1> QED  BY <1>2 DEF Gathering

LEMMA GatheredIsGathering ==
    ASSUME NEW A, NEW post \in Seq(A)
    PROVE  \E g : Gathering(g, post, Len(post)) /\ Gathered(post) = g[Len(post)]
<1> DEFINE T == {n \in Nat : \E g : Gathering(g, post, n)}
<1>1. Len(post) \in Nat  BY LenProperties
<1>2. Gathering([i \in 0 .. 0 |-> <<>>], post, 0)  BY DEF Gathering
<1>3. 0 \in T  BY <1>2
<1>4. \A n \in T \cap Nat : n + 1 \in T  BY GatheringExtends
<1> HIDE DEF T
<1>5. Len(post) \in T  BY <1>1, <1>3, <1>4, Counting
<1>6. \E g : Gathering(g, post, Len(post))  BY <1>5 DEF T
<1>7. Gathered(post) = (CHOOSE g : Gathering(g, post, Len(post)))[Len(post)]
  BY DEF Gathered, Gathering, More
<1> QED  BY <1>6, <1>7

\* The media that were had are gathered, all of them and in their order.
LEMMA GatheredAre ==
    ASSUME NEW A, NEW post \in Seq(A)
    PROVE  LET g == Gathered(post) IN
           /\ g \in Seq(DOMAIN post) /\ Len(g) <= Len(post)
           /\ \A k \in DOMAIN g : post[g[k]].path # NoFile
           /\ \A j, k \in DOMAIN g : j < k => g[j] < g[k]
           /\ \A i \in DOMAIN post : post[i].path # NoFile => \E k \in DOMAIN g : g[k] = i
<1>1. PICK d : Gathering(d, post, Len(post)) /\ Gathered(post) = d[Len(post)]
  BY GatheredIsGathering
<1>2. Len(post) \in Nat /\ DOMAIN post = 1 .. Len(post)  BY LenProperties
<1> DEFINE SoundTo(n, e) ==
             /\ e \in Seq(1 .. Len(post)) /\ Len(e) <= n
             /\ \A k \in 1 .. Len(e) : e[k] <= n /\ post[e[k]].path # NoFile
             /\ \A j, k \in 1 .. Len(e) : j < k => e[j] < e[k]
             /\ \A i \in 1 .. n : post[i].path # NoFile => \E k \in 1 .. Len(e) : e[k] = i
           T == {n \in Nat : n <= Len(post) => SoundTo(n, d[n])}
<1>3. 0 \in T
  <2>1. d[0] = <<>>  BY <1>1, <1>2 DEF Gathering
  <2>2. <<>> \in Seq(1 .. Len(post)) /\ Len(<<>>) = 0 /\ 1 .. 0 = {} OBVIOUS
  <2>3. SoundTo(0, <<>>)  BY <2>2
  <2> HIDE DEF SoundTo
  <2> QED  BY <2>1, <2>3
<1>4. ASSUME NEW n \in T \cap Nat  PROVE n + 1 \in T
  <2> SUFFICES ASSUME n + 1 <= Len(post)  PROVE SoundTo(n + 1, d[n + 1])
    <3> HIDE DEF SoundTo
    <3> QED  OBVIOUS
  <2>1. SoundTo(n, d[n])
    <3> HIDE DEF SoundTo
    <3> QED  BY <1>2
  <2>0. n \in Nat  OBVIOUS
  <2> HIDE DEF T
  <2>2. d[n + 1] = More(d[n], post, n + 1)
    <3>1. n + 1 \in 0 .. Len(post) /\ n + 1 # 0 /\ (n + 1) - 1 = n  BY <1>2
    <3> QED  BY <1>1, <3>1 DEF Gathering
  <2> DEFINE e == d[n]
  <2>3. n + 1 \in 1 .. Len(post) /\ \A i \in 1 .. n + 1 : i \in 1 .. n \/ i = n + 1  BY <1>2
  <2>4. SoundTo(n, e) /\ d[n + 1] = More(e, post, n + 1)  BY <2>1, <2>2
  <2> HIDE DEF e
  <2>5. Len(e) \in Nat /\ \A k \in 1 .. Len(e) : e[k] \in 1 .. Len(post)
    BY <2>4, ElementOfSeq, LenProperties
  <2>8. /\ e \in Seq(1 .. Len(post)) /\ Len(e) <= n
        /\ \A k \in 1 .. Len(e) : e[k] <= n /\ post[e[k]].path # NoFile
        /\ \A j, k \in 1 .. Len(e) : j < k => e[j] < e[k]
    BY <2>4
  <2>6. CASE post[n + 1].path = NoFile
    <3>1. d[n + 1] = e  BY <2>4, <2>6 DEF More
    <3>2. \A k \in 1 .. Len(e) : e[k] <= n + 1  BY <2>4, <2>5
    <3>3. Len(e) <= n + 1  BY <2>4, <2>5
    <3> QED  BY <2>3, <2>4, <2>6, <3>1, <3>2, <3>3
  <2>7. CASE post[n + 1].path # NoFile
    <3> DEFINE f == Append(e, n + 1)
    <3>1. d[n + 1] = f  BY <2>4, <2>7 DEF More
    <3>2. /\ f \in Seq(1 .. Len(post)) /\ Len(f) = Len(e) + 1 /\ f[Len(e) + 1] = n + 1
          /\ \A k \in 1 .. Len(e) : f[k] = e[k]
      <4>1. e \in Seq(1 .. Len(post))  BY <2>4
      <4> QED  BY <4>1, <2>3, AppendProperties
    <3> HIDE DEF f
    <3>3. Len(f) <= n + 1  BY <2>0, <2>5, <2>8, <3>2
    <3>4. \A k \in 1 .. Len(f) : k \in 1 .. Len(e) \/ k = Len(e) + 1  BY <2>5, <3>2
    <3>5. \A k \in 1 .. Len(f) : f[k] <= n + 1 /\ post[f[k]].path # NoFile
      <4> TAKE k \in 1 .. Len(f)
      <4>1. CASE k \in 1 .. Len(e)
        <5>1. f[k] = e[k] /\ e[k] <= n /\ e[k] \in 1 .. Len(post) /\ post[e[k]].path # NoFile
          BY <2>5, <2>8, <3>2, <4>1
        <5> QED  BY <1>2, <2>0, <5>1
      <4>2. CASE k = Len(e) + 1
        BY <2>0, <2>7, <3>2, <4>2
      <4> QED  BY <3>4, <4>1, <4>2
    <3>6. \A j, k \in 1 .. Len(f) : j < k => f[j] < f[k]
      <4> TAKE j, k \in 1 .. Len(f)
      <4>1. CASE k \in 1 .. Len(e) /\ j \in 1 .. Len(e)
        BY <2>8, <3>2, <4>1
      <4>2. CASE k = Len(e) + 1 /\ j \in 1 .. Len(e)
        <5>1. f[j] = e[j] /\ e[j] <= n /\ e[j] \in 1 .. Len(post) /\ f[k] = n + 1
          BY <2>5, <2>8, <3>2, <4>2
        <5> QED  BY <1>2, <2>0, <5>1
      <4>4. CASE k \in 1 .. Len(e) /\ j = Len(e) + 1
        BY <2>5, <4>4
      <4>3. CASE k = Len(e) + 1 /\ j = Len(e) + 1
        BY <2>5, <4>3
      <4> QED  BY <3>4, <4>1, <4>2, <4>3, <4>4
    <3>7. \A i \in 1 .. n + 1 : post[i].path # NoFile => \E k \in 1 .. Len(f) : f[k] = i
      <4> TAKE i \in 1 .. n + 1
      <4>1. CASE i = n + 1
        <5>1. Len(e) + 1 \in 1 .. Len(f)  BY <2>5, <3>2
        <5> QED  BY <3>2, <4>1, <5>1
      <4>2. CASE i \in 1 .. n /\ post[i].path # NoFile
        <5>1. PICK k \in 1 .. Len(e) : e[k] = i  BY <2>4, <4>2
        <5>2. k \in 1 .. Len(f) /\ f[k] = i  BY <2>5, <3>2, <5>1
        <5> QED  BY <5>2
      <4> QED  BY <2>3, <4>1, <4>2
    <3> QED  BY <3>1, <3>2, <3>3, <3>5, <3>6, <3>7
  <2> QED  BY <2>6, <2>7
<1> HIDE DEF T
<1>5. Len(post) \in T  BY <1>2, <1>3, <1>4, Counting
<1>6. SoundTo(Len(post), d[Len(post)])  BY <1>2, <1>5 DEF T
<1> DEFINE g == Gathered(post)
<1>7. SoundTo(Len(post), g)  BY <1>1, <1>6
<1> HIDE DEF g
<1>8. DOMAIN g = 1 .. Len(g)  BY <1>7, LenProperties
<1>9. /\ g \in Seq(DOMAIN post) /\ Len(g) <= Len(post)
      /\ \A k \in DOMAIN g : post[g[k]].path # NoFile
      /\ \A j, k \in DOMAIN g : j < k => g[j] < g[k]
      /\ \A i \in DOMAIN post : post[i].path # NoFile => \E k \in DOMAIN g : g[k] = i
  BY <1>2, <1>7, <1>8
<1> QED  BY <1>9 DEF g

LEMMA SameLength == \A a, b \in Nat : 1 .. a = 1 .. b => a = b
<1> SUFFICES ASSUME NEW a \in Nat, NEW b \in Nat, 1 .. a = 1 .. b, a < b  PROVE FALSE
  OBVIOUS
<1>1. b \in 1 .. b /\ b \notin 1 .. a  OBVIOUS
<1> QED  BY <1>1

\* The answer about a post: its heading, the media that were had in order, and
\* what is missing, if anything is
LEMMA NameKeeps == ASSUME ResolverInv, NamePost  PROVE ResolverInv'
<1> DEFINE post == media[turn]
           had == Gathered(post)
           missing == Len(post) - Len(had)
           Named(m) == Node(IF m.kind = "photo" THEN "image" ELSE "video", m.path)
           pictures == {post[i].path.dir : i \in {j \in Range(had) : post[j].kind = "photo"}}
           parts == [k \in DOMAIN had |-> Named(post[had[k]])]
           lost == [Sorry EXCEPT !.failed = missing]
           rest == IF missing > 0 THEN <<lost>> ELSE <<>>
           r == <<Heading>> \o parts \o rest
           n == Len(had)
           T == IF pictures = {} THEN {} ELSE {pictures}
           Had(i) == i \in DOMAIN post /\ post[i].path # NoFile
<1>1. /\ spot = "media" /\ \A i \in DOMAIN post : post[i].at = "done"
      /\ Resolved(r) /\ timers' = timers \cup T
      /\ UNCHANGED <<mail, media, disk, made>>
  <2>1. /\ spot = "media" /\ \A i \in DOMAIN post : post[i].at = "done"
        /\ UNCHANGED <<mail, media, disk, made>>
    BY DEF NamePost
  <2>2. Resolved(r)  BY DEF NamePost
  <2>3. timers' = IF pictures = {} THEN timers ELSE timers \cup {pictures}  BY DEF NamePost
  <2> HIDE DEF pictures, r, post
  <2>4. timers' = timers \cup T  BY <2>3
  <2> QED  BY <2>1, <2>2, <2>4
<1>2. /\ turn \in DOMAIN mail /\ post \in Seq(PostMedia) /\ Tried = {} /\ turn \in Nat /\ turn <= Len(mail)
      /\ InHand = {post[i].dir : i \in {k \in DOMAIN post : Holds(post[k])}}
      /\ \A i \in DOMAIN post : post[i] \in PostMedia /\ OwnMedium(i, post[i])
  BY <1>1, MediaStand DEF ResolverInv, ResolverTyped
<1>3. Len(post) \in Nat /\ DOMAIN post = 1 .. Len(post)  BY <1>2, LenProperties
<1>4. /\ had \in Seq(DOMAIN post) /\ n <= Len(post)
      /\ \A k \in DOMAIN had : post[had[k]].path # NoFile
      /\ \A j, k \in DOMAIN had : j < k => had[j] < had[k]
      /\ \A i \in DOMAIN post : post[i].path # NoFile => \E k \in DOMAIN had : had[k] = i
  BY <1>2, GatheredAre
<1>5. n \in Nat /\ DOMAIN had = 1 .. n /\ \A k \in DOMAIN had : had[k] \in DOMAIN post
  BY <1>4, ElementOfSeq, LenProperties
<1>5a. Range(had) = {i \in DOMAIN post : post[i].path # NoFile}
  <2>1. \A i : i \in Range(had) <=> \E k \in DOMAIN had : had[k] = i
    <3> HIDE DEF had
    <3> QED  BY DEF Range
  <2> HIDE DEF had, post, n
  <2> QED  BY <1>4, <1>5, <2>1
<1> HIDE DEF had
<1>6. missing \in Nat  BY <1>3, <1>4, <1>5
<1>7. \A i \in DOMAIN post : post[i].path # NoFile =>
          /\ post[i].path = [dir |-> post[i].dir, name |-> "whole"] /\ post[i].dir \in Nat
          /\ post[i].kind \in {"photo", "video"} /\ post[i].path \in FileNames /\ post[i].dir # 0
          /\ disk[post[i].dir] = {[name |-> "whole", state |-> "good"]}
  BY <1>2 DEF OwnMedium, PostMedia, Kinds
<1>35. \A i \in DOMAIN post : post[i].path # NoFile => post[i].path.dir = post[i].dir
  <2> TAKE i \in DOMAIN post
  <2> DEFINE file == post[i].path
             d == post[i].dir
  <2>1. file # NoFile => file = [dir |-> d, name |-> "whole"]  BY <1>7
  <2> HIDE DEF file, d
  <2>2. file # NoFile => file.dir = d  BY <2>1
  <2> QED  BY <2>2 DEF file, d
<1>8. \A i, k \in DOMAIN post : i # k /\ post[i].path # NoFile => post[k].dir # post[i].dir
  <2> TAKE i, k \in DOMAIN post
  <2>1. OwnMedium(i, post[i])  BY <1>2
  <2>2. post[i].path # NoFile => post[i].dir # 0  BY <1>7
  <2> QED  BY <2>1, <2>2 DEF OwnMedium
<1>9. InHand = {post[i].dir : i \in {k \in DOMAIN post : post[k].path # NoFile}}
  BY <1>1, <1>2 DEF Holds
\* the parts of the answer
<1>10. \A k \in DOMAIN had :
          /\ parts[k] \in Replies /\ parts[k].link = turn /\ parts[k].file = post[had[k]].path
          /\ parts[k].is = IF post[had[k]].kind = "photo" THEN "image" ELSE "video"
  <2> TAKE k \in DOMAIN had
  <2>1. post[had[k]].path \in FileNames  BY <1>4, <1>5, <1>7
  <2> HIDE DEF post
  <2> QED  BY <1>2, <2>1 DEF Node, Replies
<1>11. Heading \in Replies /\ Heading.link = turn /\ Heading.is = "text" /\ Heading.file = NoFile
       /\ Heading.failed = 0
  BY <1>2 DEF Heading, Node, NoFile, Replies, FileNames
<1>12. lost \in Replies /\ lost.link = turn /\ lost.is = "excuse" /\ lost.file = NoFile
       /\ lost.failed = missing
  <2> HIDE DEF missing
  <2> QED  BY <1>2, <1>6 DEF Sorry, Node, NoFile, Replies, FileNames
<1> HIDE DEF post, missing, pictures
<1>13. parts \in Seq(Replies) /\ Len(parts) = n /\ DOMAIN parts = 1 .. n
  <2>1. parts \in [1 .. n -> Replies]  BY <1>5, <1>10
  <2>4. DOMAIN parts = 1 .. n  BY <1>5
  <2> HIDE DEF parts, n
  <2>2. parts \in Seq(Replies)
    <3>1. n \in Nat  BY <1>5 DEF n
    <3> QED  BY <2>1, <3>1
  <2>3. DOMAIN parts = 1 .. Len(parts) /\ Len(parts) \in Nat  BY <2>2, LenProperties
  <2>5. Len(parts) = n
    <3>1. 1 .. n = 1 .. Len(parts) /\ n \in Nat /\ Len(parts) \in Nat  BY <1>5, <2>3, <2>4 DEF n
    <3> QED  BY <3>1, SameLength
  <2> QED  BY <2>2, <2>4, <2>5
<1>14. rest \in Seq(Replies) /\ Len(rest) = (IF missing > 0 THEN 1 ELSE 0)
       /\ (missing > 0 => rest[1] = lost)
  <2> HIDE DEF lost
  <2>1. <<lost>> \in Seq(Replies) /\ <<>> \in Seq(Replies) /\ Len(<<lost>>) = 1 /\ Len(<<>>) = 0
        /\ <<lost>>[1] = lost
    BY <1>12
  <2> QED  BY <2>1
<1> HIDE DEF parts, rest, lost, n
<1>15. /\ r \in Seq(Replies) /\ Len(r) = n + 1 + Len(rest) /\ r[1] = Heading
       /\ \A k \in 1 .. n : r[k + 1] = parts[k]
       /\ missing > 0 => r[n + 2] = lost
  <2> DEFINE h == <<Heading>>
             s == h \o parts
  <2>1. h \in Seq(Replies) /\ Len(h) = 1 /\ h[1] = Heading  BY <1>11
  <2> HIDE DEF h
  <2>2. /\ s \in Seq(Replies) /\ Len(s) = n + 1
        /\ \A i \in 1 .. 1 + n : s[i] = IF i <= 1 THEN h[i] ELSE parts[i - 1]
    <3>1. /\ s \in Seq(Replies) /\ Len(s) = Len(h) + Len(parts)
          /\ \A i \in 1 .. Len(h) + Len(parts) : s[i] = IF i <= Len(h) THEN h[i] ELSE parts[i - Len(h)]
      BY <2>1, <1>13, ConcatProperties
    <3> HIDE DEF s
    <3> QED  BY <1>5, <1>13, <2>1, <3>1
  <2> HIDE DEF s
  <2> DEFINE w == s \o rest
  <2>3. /\ w \in Seq(Replies) /\ Len(w) = n + 1 + Len(rest)
        /\ \A i \in 1 .. n + 1 + Len(rest) : w[i] = IF i <= n + 1 THEN s[i] ELSE rest[i - (n + 1)]
    <3>1. /\ w \in Seq(Replies) /\ Len(w) = Len(s) + Len(rest)
          /\ \A i \in 1 .. Len(s) + Len(rest) : w[i] = IF i <= Len(s) THEN s[i] ELSE rest[i - Len(s)]
      BY <2>2, <1>14, ConcatProperties
    <3> HIDE DEF w
    <3> QED  BY <2>2, <3>1
  <2>4. r = w  BY DEF h, s
  <2> HIDE DEF w, r
  <2>5. w[1] = Heading
    <3>1. 1 \in 1 .. n + 1 + Len(rest) /\ 1 <= n + 1 /\ 1 \in 1 .. 1 + n  BY <1>5, <1>14
    <3> QED  BY <2>1, <2>2, <2>3, <3>1 DEF w
  <2>6. ASSUME NEW k \in 1 .. n  PROVE w[k + 1] = parts[k]
    <3>1. k + 1 \in 1 .. n + 1 + Len(rest) /\ k + 1 <= n + 1 /\ k + 1 \in 1 .. 1 + n /\ ~(k + 1 <= 1)
          /\ (k + 1) - 1 = k
      BY <1>5, <1>14, <2>6
    <3> QED  BY <2>2, <2>3, <3>1 DEF w
  <2>7. ASSUME missing > 0  PROVE w[n + 2] = lost
    <3>1. n + 2 \in 1 .. n + 1 + Len(rest) /\ ~(n + 2 <= n + 1) /\ (n + 2) - (n + 1) = 1  BY <1>5, <1>14, <2>7
    <3> QED  BY <1>14, <2>3, <2>7, <3>1 DEF w
  <2> QED  BY <2>3, <2>4, <2>5, <2>6, <2>7 DEF w
<1> HIDE DEF r
<1>16. DOMAIN r = 1 .. n + 1 + Len(rest)  BY <1>15, LenProperties
<1>17. ASSUME NEW k \in DOMAIN r
       PROVE  \/ k = 1 /\ r[k] = Heading
              \/ k - 1 \in DOMAIN had /\ r[k] = parts[k - 1]
              \/ missing > 0 /\ k = n + 2 /\ r[k] = lost
  <2>1. CASE k = 1  BY <1>15, <2>1
  <2>2. CASE k \in 2 .. n + 1
    <3>1. k - 1 \in 1 .. n /\ (k - 1) + 1 = k  BY <1>5, <2>2
    <3> QED  BY <1>5, <1>15, <3>1
  <2>3. CASE k > n + 1
    <3>1. missing > 0 /\ k = n + 2  BY <1>5, <1>14, <1>16, <2>3
    <3> QED  BY <1>15, <3>1
  <2>4. k \in Nat /\ 1 <= k  BY <1>5, <1>14, <1>16
  <2>5. k = 1 \/ k \in 2 .. n + 1 \/ k > n + 1  BY <1>5, <2>4
  <2> QED  BY <2>1, <2>2, <2>3, <2>5
\* what the answer's videos and the timer take over
<1>18. \A k \in DOMAIN r : r[k].link = turn
  BY <1>10, <1>11, <1>12, <1>17
<1> DEFINE Photo(i) == post[i].path # NoFile /\ post[i].kind = "photo"
           Film(i) == post[i].path # NoFile /\ post[i].kind # "photo"
<1>19. pictures = {post[i].dir : i \in {k \in DOMAIN post : Photo(k)}}
  <2>1. ASSUME NEW d \in pictures  PROVE d \in {post[i].dir : i \in {k \in DOMAIN post : Photo(k)}}
    <3>1. PICK i \in Range(had) : post[i].kind = "photo" /\ d = post[i].path.dir
      BY <2>1 DEF pictures
    <3>2. i \in DOMAIN post /\ post[i].path # NoFile
      BY <1>5a, <3>1
    <3>3. d = post[i].dir  BY <1>35, <3>1, <3>2
    <3> QED  BY <3>1, <3>2, <3>3
  <2>2. ASSUME NEW d \in {post[i].dir : i \in {k \in DOMAIN post : Photo(k)}}  PROVE d \in pictures
    <3>1. PICK i \in DOMAIN post : Photo(i) /\ d = post[i].dir
      BY <2>2
    <3>2. i \in Range(had)  BY <1>5a, <3>1
    <3>3. d = post[i].path.dir  BY <1>35, <3>1
    <3> QED  BY <3>1, <3>2, <3>3 DEF pictures
  <2> QED  BY <2>1, <2>2
<1>20. VideosOf(r) = {post[i].dir : i \in {k \in DOMAIN post : Film(k)}}
  <2>1. ASSUME NEW d \in VideosOf(r)  PROVE d \in {post[i].dir : i \in {k \in DOMAIN post : Film(k)}}
    <3>1. PICK k \in DOMAIN r : r[k].is = "video" /\ d = r[k].file.dir
      BY <2>1 DEF VideosOf
    <3>2. k - 1 \in DOMAIN had /\ r[k] = parts[k - 1]
      BY <1>11, <1>12, <1>17, <3>1
    <3> DEFINE i == had[k - 1]
    <3>3. i \in DOMAIN post /\ post[i].path # NoFile  BY <1>4, <1>5, <3>2
    <3>4. r[k].file = post[i].path /\ r[k].is = IF post[i].kind = "photo" THEN "image" ELSE "video"
      BY <1>10, <3>2
    <3> HIDE DEF i
    <3>5. d = post[i].dir /\ post[i].kind # "photo"  BY <1>35, <3>1, <3>3, <3>4
    <3> QED  BY <3>3, <3>5
  <2>2. ASSUME NEW d \in {post[i].dir : i \in {k \in DOMAIN post : Film(k)}}  PROVE d \in VideosOf(r)
    <3>1. PICK i \in DOMAIN post : Film(i) /\ d = post[i].dir
      BY <2>2
    <3>2. PICK k \in DOMAIN had : had[k] = i  BY <1>4, <3>1
    <3>3. r[k + 1] = parts[k] /\ k + 1 \in DOMAIN r
      BY <1>5, <1>14, <1>15, <1>16, <3>2
    <3>4. r[k + 1].file = post[i].path /\ r[k + 1].is = "video"
      BY <1>10, <3>1, <3>2, <3>3
    <3>5. d = r[k + 1].file.dir  BY <1>35, <3>1, <3>4
    <3> QED  BY <3>3, <3>4, <3>5 DEF VideosOf
  <2> QED  BY <2>1, <2>2
<1>21. VideosOf(r) \cup pictures = InHand /\ VideosOf(r) \cap pictures = {}
  <2>1. VideosOf(r) \cup pictures = InHand  BY <1>9, <1>19, <1>20
  <2>2. ASSUME NEW d \in VideosOf(r), d \in pictures  PROVE FALSE
    <3>1. PICK i \in DOMAIN post : Film(i) /\ d = post[i].dir  BY <1>20, <2>2
    <3>2. PICK k \in DOMAIN post : Photo(k) /\ d = post[k].dir  BY <1>19, <2>2
    <3> QED  BY <1>8, <3>1, <3>2
  <2> QED  BY <2>1, <2>2
<1>22. UNION T = pictures /\ \A p, q \in T : p = q \/ p \cap q = {}
  OBVIOUS
<1>23. VideosOf(r) \cup UNION T = Tried \cup InHand /\ VideosOf(r) \cap UNION T = {}
  <2> HIDE DEF T
  <2> QED  BY <1>2, <1>21, <1>22
<1>24. \A k \in DOMAIN r : r[k].is = "video" =>
              /\ r[k].file # NoFile
              /\ \E f \in disk[r[k].file.dir] : f.name = r[k].file.name /\ f.state = "good"
  <2> SUFFICES ASSUME NEW k \in DOMAIN r, r[k].is = "video"
               PROVE  /\ r[k].file # NoFile
                      /\ \E f \in disk[r[k].file.dir] : f.name = r[k].file.name /\ f.state = "good"
    OBVIOUS
  <2>1. k - 1 \in DOMAIN had /\ r[k] = parts[k - 1]
    BY <1>11, <1>12, <1>17
  <2> DEFINE i == had[k - 1]
  <2>2. i \in DOMAIN post /\ post[i].path # NoFile  BY <1>4, <1>5, <2>1
  <2>3. r[k].file = post[i].path  BY <1>10, <2>1
  <2> HIDE DEF i
  <2>4. /\ post[i].path = [dir |-> post[i].dir, name |-> "whole"]
        /\ disk[post[i].dir] = {[name |-> "whole", state |-> "good"]}
    BY <1>7, <2>2
  <2>5. r[k].file.dir = post[i].dir /\ r[k].file.name = "whole"  BY <2>3, <2>4
  <2>6. [name |-> "whole", state |-> "good"] \in disk[r[k].file.dir]  BY <2>4, <2>5
  <2> QED  BY <2>2, <2>3, <2>5, <2>6
<1>25. nodes' = nodes \o r /\ turn' = turn + 1 /\ spot' = "next" /\ try' = NoTry
  BY <1>1 DEF Resolved
\* what the answer tells of the post
<1>26. /\ Len(nodes) \in Nat
       /\ \A k \in DOMAIN r : Len(nodes) + k \in DOMAIN nodes' /\ nodes'[Len(nodes) + k] = r[k]
       /\ \A k \in DOMAIN nodes' : \/ k \in DOMAIN nodes /\ nodes'[k] = nodes[k]
                                   \/ k - Len(nodes) \in DOMAIN r /\ nodes'[k] = r[k - Len(nodes)]
  BY <1>15, <1>25, AnswerGrows, LinkStands
<1>27. \A k \in DOMAIN nodes : nodes[k].link # turn
  <2>1. \A k \in DOMAIN nodes : nodes[k] \in Replies /\ nodes[k].link < turn
    BY ElementOfSeq, LinkStands DEF ResolverInv, ResolverTyped, LinksSoFar
  <2> QED  BY <1>2, <2>1 DEF Replies
<1> SUFFICES ASSUME NEW t, t = turn  PROVE PostIsTold(t)'
  <2> HIDE DEF T
  <2>1. ASSUME NEW t, t = turn, PostIsTold(t)'  PROVE ResolverInv'
    BY <1>1, <1>2, <1>15, <1>18, <1>22, <1>23, <1>24, <1>25, <2>1, LinkDone
  <2> QED  BY <2>1
<1> DEFINE b == Len(nodes) + 1
           S2 == {k \in DOMAIN nodes' : nodes'[k].link = t /\ nodes'[k].file # NoFile}
           at(k) == had[k - b]
<1>34. b \in Nat /\ b = Len(nodes) + 1  BY <1>26
<1> HIDE DEF b
<1>36. \A k \in b + 1 .. b + n :
          /\ k - b \in 1 .. n /\ k - b \in DOMAIN had /\ (k - b) + 1 = k - Len(nodes)
          /\ k = Len(nodes) + (k - Len(nodes)) /\ k - Len(nodes) \in DOMAIN r
  BY <1>5, <1>14, <1>16, <1>26, <1>34
<1>28. S2 = b + 1 .. b + n
  <2>1. ASSUME NEW k \in S2  PROVE k \in b + 1 .. b + n
    <3>1. k - Len(nodes) \in DOMAIN r /\ nodes'[k] = r[k - Len(nodes)]
      BY <1>26, <1>27
    <3>2. (k - Len(nodes)) - 1 \in DOMAIN had
      BY <1>11, <1>12, <1>17, <3>1
    <3>3. (k - Len(nodes)) - 1 \in 1 .. n /\ k \in Int  BY <1>5, <1>26, <3>1, <3>2, LinkStands, AnswerGrows, <1>15, <1>25
    <3> QED  BY <1>5, <1>26, <1>34, <3>3
  <2>2. ASSUME NEW k \in b + 1 .. b + n  PROVE k \in S2
    <3>1. k - b \in 1 .. n /\ k - b \in DOMAIN had /\ (k - b) + 1 = k - Len(nodes) /\ k = Len(nodes) + (k - Len(nodes))
          /\ k - Len(nodes) \in DOMAIN r
      BY <1>36, <2>2
    <3>2. r[k - Len(nodes)] = parts[k - b]
      BY <1>15, <3>1
    <3>3. k \in DOMAIN nodes' /\ nodes'[k] = parts[k - b]
      BY <1>26, <3>1, <3>2
    <3> DEFINE x == k - b
    <3>4. x \in DOMAIN had /\ nodes'[k] = parts[x]  BY <3>1, <3>3
    <3> HIDE DEF x
    <3>5. nodes'[k].link = t /\ nodes'[k].file # NoFile  BY <1>4, <1>10, <3>4
    <3> QED  BY <3>3, <3>5
  <2> QED  BY <2>1, <2>2
<1> HIDE DEF S2
<1>29. ASSUME NEW k \in S2
       PROVE  /\ k - b \in DOMAIN had /\ at(k) \in DOMAIN post /\ post[at(k)].path # NoFile
              /\ nodes'[k].file.dir = post[at(k)].dir
              /\ nodes'[k].is = IF post[at(k)].kind = "photo" THEN "image" ELSE "video"
  <2>1. k \in b + 1 .. b + n  BY <1>28
  <2>2. k - b \in 1 .. n /\ k - b \in DOMAIN had /\ (k - b) + 1 = k - Len(nodes) /\ k = Len(nodes) + (k - Len(nodes))
        /\ k - Len(nodes) \in DOMAIN r
    BY <1>36, <2>1
  <2>3. nodes'[k] = parts[k - b]
    BY <1>15, <1>26, <2>2
  <2> DEFINE x == k - b
  <2>7. x \in DOMAIN had /\ nodes'[k] = parts[x] /\ at(k) = had[x]  BY <2>2, <2>3
  <2> HIDE DEF x
  <2>4. at(k) \in DOMAIN post /\ post[at(k)].path # NoFile  BY <1>4, <1>5, <2>2
  <2>5. /\ nodes'[k].file = post[at(k)].path
        /\ nodes'[k].is = IF post[at(k)].kind = "photo" THEN "image" ELSE "video"
    BY <1>10, <2>7
  <2>6. nodes'[k].file.dir = post[at(k)].dir  BY <1>35, <2>4, <2>5
  <2> QED  BY <2>2, <2>4, <2>5, <2>6
<1>30. media'[t] = post  BY <1>1 DEF post
<1>31. \A k \in S2 : \E i \in DOMAIN media'[t] :
              /\ nodes'[k].file.dir = media'[t][i].dir
              /\ nodes'[k].is = IF media'[t][i].kind = "photo" THEN "image" ELSE "video"
  <2> TAKE k \in S2
  <2>1. at(k) \in DOMAIN media'[t]  BY <1>29, <1>30
  <2> WITNESS at(k) \in DOMAIN media'[t]
  <2> QED  BY <1>29, <1>30
<1>32. \A j, k \in S2, i, m \in DOMAIN media'[t] :
              j < k /\ nodes'[j].file.dir = media'[t][i].dir /\ nodes'[k].file.dir = media'[t][m].dir => i < m
  <2> TAKE j, k \in S2, i, m \in DOMAIN media'[t]
  <2> SUFFICES ASSUME j < k, nodes'[j].file.dir = media'[t][i].dir, nodes'[k].file.dir = media'[t][m].dir
               PROVE  i < m
    OBVIOUS
  <2>1. post[at(j)].dir = post[i].dir /\ post[at(k)].dir = post[m].dir /\ i \in DOMAIN post /\ m \in DOMAIN post
    BY <1>29, <1>30
  <2>2. at(j) \in DOMAIN post /\ post[at(j)].path # NoFile /\ at(k) \in DOMAIN post /\ post[at(k)].path # NoFile
    BY <1>29
  <2>3. i = at(j) /\ m = at(k)  BY <1>8, <2>1, <2>2
  <2>4. j \in b + 1 .. b + n /\ k \in b + 1 .. b + n  BY <1>28
  <2>5. j - b < k - b /\ j - b \in DOMAIN had /\ k - b \in DOMAIN had  BY <1>26, <1>29, <1>34, <1>5, <2>4
  <2> QED  BY <1>4, <2>3, <2>5
<1>33. \E told \in Range(nodes') :
              told.link = t /\ told.failed = Len(media'[t]) - Cardinality(S2)
  <2>1. Cardinality(S2) = n
    <3>1. b + 1 \in Int /\ b + n \in Int /\ (b + n) - (b + 1) + 1 = n /\ (b + 1 > b + n => n = 0)
      BY <1>5, <1>34
    <3> HIDE DEF b
    <3>2. Cardinality(b + 1 .. b + n) = n  BY <3>1, FS_Interval
    <3> QED  BY <1>28, <3>2
  <2>2. missing = Len(media'[t]) - Cardinality(S2)  BY <1>30, <2>1 DEF missing, n
  <2>3. CASE missing > 0
    <3>1. n + 2 \in DOMAIN r /\ r[n + 2] = lost  BY <1>5, <1>14, <1>15, <1>16, <2>3
    <3>2. lost \in Range(nodes')  BY <1>26, <3>1 DEF Range
    <3> QED  BY <1>12, <2>2, <3>2
  <2>4. CASE missing = 0
    <3>1. 1 \in DOMAIN r /\ r[1] = Heading  BY <1>5, <1>14, <1>15, <1>16
    <3>2. Heading \in Range(nodes')  BY <1>26, <3>1 DEF Range
    <3> QED  BY <1>11, <2>2, <2>4, <3>2
  <2> QED  BY <1>6, <2>3, <2>4
<1> QED  BY <1>31, <1>32, <1>33, Zenon DEF PostIsTold, S2

-----------------------------------------------------------------------------
(* The links: the theorems. *)

LEMMA ResolverStep == ResolverInv /\ [ResolverNext]_resolverVars => ResolverInv'
<1> SUFFICES ASSUME ResolverInv, [ResolverNext]_resolverVars  PROVE ResolverInv'
  OBVIOUS
<1>1. CASE AskPermission \/ NextLink \/ ReturnAnswer  BY <1>1, LinkPassed
<1>2. CASE Describe  BY <1>2, DescribeKeeps
<1>3. CASE TryAPI \/ TryFormats \/ TryDouyin \/ TryTwitter \/ TryCandidate \/ TryTool
  BY <1>3, PlacesKeep
<1>4. CASE Fetch  BY <1>4, FetchKeeps
<1>5. CASE Merge  BY <1>5, MergeKeeps
<1>6. CASE Accept  BY <1>6, AcceptKeeps
<1>7. CASE NotFound  BY <1>7, MissingKeeps
<1>8. CASE NamePost  BY <1>8, NameKeeps
<1>9. CASE \E i \in DOMAIN media[turn] : StartMedium(i) \/ EndMedium(i)
  BY <1>9, MediumStarts, MediumEnds
<1>10. CASE \E pictures \in timers : RemovePictures(pictures)
  BY <1>10, RemoveKeeps
<1>11. CASE EndContext
  BY <1>11, SameKeeps DEF EndContext
<1>12. CASE UNCHANGED resolverVars
  BY <1>12, SameKeeps DEF resolverVars
<1> QED
  BY <1>1, <1>2, <1>3, <1>4, <1>5, <1>6, <1>7, <1>8, <1>9, <1>10, <1>11, <1>12
  DEF ResolverNext

\* The invariant of the resolver: each directory there is has one owner, which
\* removes it or names it in the answer, and a goroutine writes to its own.
THEOREM ResolversAreSound == ResolverInit /\ [][ResolverNext]_resolverVars => []ResolverInv
<1> QED  BY ResolverBegins, ResolverStep, PTL

\* When Handle returns, nothing is on the disk but whole videos that are named
\* and pictures with a timer, and every medium of a post is shown as what it is
\* and in its order or counted as missing: for any links, places, addresses and
\* media, whichever downloads fail and in whatever order they end.
THEOREM ResolversAreSafe == ResolverInit /\ [][ResolverNext]_resolverVars => []ResolverSafe
<1>1. ASSUME ResolverInv  PROVE ResolverSafe
  <2>1. PostIsWhole  BY <1>1 DEF ResolverInv
  <2>2. FilesAreOwned
    <3> SUFFICES ASSUME spot = "done"
                 PROVE  /\ DOMAIN disk = {n.file.dir : n \in Sent("video")} \cup UNION timers
                        /\ \A n \in Sent("video") :
                              \E f \in disk[n.file.dir] : f.name = n.file.name /\ f.state = "good"
      BY DEF FilesAreOwned
    <3>1. DOMAIN disk = VideosOf(nodes) \cup Timed
      BY <1>1 DEF ResolverInv, OneOwnerEach, Tried, InHand
    <3>2. \A n : n \in Sent("video") <=> \E k \in DOMAIN nodes : n = nodes[k] /\ nodes[k].is = "video"
      BY <1>1 DEF ResolverInv, VideosAreGood, Sent, Range
    <3>3. VideosOf(nodes) = {n.file.dir : n \in Sent("video")}
      BY <3>2 DEF VideosOf
    <3>4. \A n \in Sent("video") : \E f \in disk[n.file.dir] : f.name = n.file.name /\ f.state = "good"
      BY <1>1, <3>2 DEF ResolverInv, VideosAreGood
    <3> QED  BY <3>1, <3>3, <3>4 DEF Timed
  <2> QED  BY <2>1, <2>2 DEF ResolverSafe
<1> QED  BY <1>1, ResolversAreSound, PTL

=============================================================================
