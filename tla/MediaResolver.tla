---------------------------- MODULE MediaResolver ----------------------------
(***************************************************************************)
(* The link resolver (ResolverPlugin.Handle with plugins.go,               *)
(* video_frames.go, twitter_resolver.go): what the links of a message lead *)
(* to is downloaded into directories of its own, and the answer names the  *)
(* files.  A video is looked for in one place after another; the media of  *)
(* a post are downloaded at once, each by its own goroutine.  A directory  *)
(* is removed when its download fails, by the timer of its post's images,  *)
(* or, as part of the delivery of the answer, with its videos.             *)
(*                                                                         *)
(* Left out: how addresses are recognised and metadata parsed, and the     *)
(* headers, cookies and texts.  What such a request yields is a choice.    *)
(***************************************************************************)
EXTENDS Integers, Sequences, SequencesExt, FiniteSets

CONSTANTS
    Mails,          \* the links of a message: sequences of platforms
    MaxBackups,     \* bound: addresses of a file
    MaxMedia        \* maximumTwitterMediaItems

ASSUME ResolverAssumption ==
    /\ {MaxBackups, MaxMedia} \subseteq Nat \ {0}
    /\ \A mail \in Mails :
          mail \in Seq({"bilibili", "douyin", "xiaohongshu", "twitter", "youtube", "page"})

VARIABLES
    mail,       \* the links of the message
    turn,       \* the one at work
    spot,       \* where Handle is
    permission, \* twitterResolverRequestAllowed: not asked, or its answer
    ladder,     \* places that are still to be tried for the video
    try,        \* the one that is being tried: its directory, files and addresses
    media,      \* per link: the media of its post
    disk,       \* the directories there are, each with its files
    made,       \* directories made so far
    nodes,      \* ForwardMessages
    timers,     \* cleanupLocalMediaFilesLater: sets of directories
    expired     \* whether the caller's context has ended

resolverVars == <<mail, turn, spot, permission, ladder, try, media, disk, made, nodes,
                  timers, expired>>

NoFile == [dir |-> 0, name |-> "none"]
NoTry == [source |-> "none", dir |-> 0, parts |-> <<>>, urls |-> 0]
Node(is, file) == [link |-> turn, is |-> is, file |-> file, failed |-> 0]

ResolverInit ==
    /\ mail \in Mails /\ turn = 1 /\ spot = "next"
    /\ permission = "unknown" /\ ladder = <<>> /\ try = NoTry
    /\ media = [i \in DOMAIN mail |-> <<>>] /\ disk = <<>> /\ made = 0
    /\ nodes = <<>> /\ timers = {} /\ expired = FALSE

Link == mail[turn]

\* The result of a link is added to those of the links before.
Resolved(result) ==
    /\ nodes' = nodes \o result /\ turn' = turn + 1 /\ spot' = "next"
    /\ ladder' = <<>> /\ try' = NoTry

-----------------------------------------------------------------------------
\* The loop over the links

\* Handle asks once whether the user may have posts resolved.
AskPermission ==
    /\ spot = "next" /\ turn <= Len(mail) /\ Link = "twitter" /\ permission = "unknown"
    /\ permission' \in {"granted", "refused"}
    /\ UNCHANGED <<mail, turn, spot, ladder, try, media, disk, made, nodes, timers, expired>>

\* A page is left to the browser, or adds its title to the text.
PassOver == Link = "page" \/ (Link = "twitter" /\ permission = "refused")

NextLink ==
    /\ spot = "next" /\ turn <= Len(mail) /\ (Link = "twitter" => permission # "unknown")
    /\ \/ PassOver /\ turn' = turn + 1 /\ UNCHANGED spot
       \/ ~PassOver /\ spot' = "metadata" /\ UNCHANGED turn
    /\ UNCHANGED <<mail, permission, ladder, try, media, disk, made, nodes, timers, expired>>

-----------------------------------------------------------------------------
\* What a link leads to, as its platform tells

Heading == Node("text", NoFile)
Sorry == Node("excuse", NoFile)
Address == Node("image", NoFile)

Known(kinds) == IF expired THEN {"nothing"} ELSE {"nothing"} \cup kinds
View == Known({"long", "video"})
Detail == Known({"pictures", "video"})
Note == Known({"pictures", "video", "text"})
PostData == Known({"text", "media"})

Kinds == {"photo", "video"}
Posts == UNION {[1 .. n -> [kind : Kinds, at : {"new"}, dir : {0}, path : {NoFile}]] : n \in 1 .. MaxMedia}

\* The search for the video begins, in the places of downloadPlatformVideoFile:
\* a platform's own first, then yt-dlp.
Search(places) ==
    /\ ladder' = places \o <<"ytdlp">> /\ spot' = "search"
    /\ UNCHANGED <<turn, try, nodes, media>>

\* What cannot be had is said, and so is that a video is too long.
DescribeVideo ==
    /\ Link = "bilibili"
    /\ \E found \in View :
          \/ found = "nothing" /\ Resolved(<<Sorry>>) /\ UNCHANGED media
          \/ found = "long" /\ Resolved(<<Heading>>) /\ UNCHANGED media
          \/ found = "video" /\ Search(<<"api", "formats">>)

\* Pictures are named by their addresses.
DescribeClip ==
    /\ Link = "douyin"
    /\ \E found \in Detail :
          \/ found = "nothing" /\ Resolved(<<Sorry>>) /\ UNCHANGED media
          \/ found = "pictures" /\ Resolved(<<Heading, Address>>) /\ UNCHANGED media
          \/ found = "video" /\ Search(<<"douyin">>)

\* A note has a number of candidates, none if it cannot be had a second time.
DescribeNote ==
    /\ Link = "xiaohongshu"
    /\ \E found \in Note :
          \/ found = "nothing" /\ Resolved(<<Sorry>>) /\ UNCHANGED media
          \/ found = "text" /\ Resolved(<<Heading>>) /\ UNCHANGED media
          \/ found = "pictures" /\ Resolved(<<Heading, Address>>) /\ UNCHANGED media
          \/ found = "video" /\ \E n \in 0 .. MaxBackups : Search([i \in 1 .. n |-> "candidate"])

\* A post of which nothing is known may still lead to a video.
DescribePost ==
    /\ Link = "twitter"
    /\ \E found \in PostData :
          \/ found = "nothing" /\ Search(<<"twitter">>)
          \/ found = "text" /\ Resolved(<<Heading>>) /\ UNCHANGED media
          \/ /\ found = "media" /\ \E post \in Posts : media' = [media EXCEPT ![turn] = post]
             /\ spot' = "media" /\ UNCHANGED <<turn, ladder, try, nodes>>

DescribeTitle == Link = "youtube" /\ Search(<<>>)

Describe ==
    /\ spot = "metadata"
    /\ DescribeVideo \/ DescribeClip \/ DescribeNote \/ DescribePost \/ DescribeTitle
    /\ UNCHANGED <<mail, permission, disk, made, timers, expired>>

-----------------------------------------------------------------------------
\* Looking for a video

\* The files a place offers: picture and sound apart, the picture alone, or one
\* file.  The API gives further addresses for each.
DashFiles == {<<"picture", "sound">>, <<"picture">>, <<"whole">>}
FormatFiles == {<<"picture", "sound">>, <<"picture">>}
Addresses(source) == IF source = "api" THEN 1 .. MaxBackups ELSE {1}

WithDirectory == [d \in DOMAIN disk \cup {made + 1} |-> IF d = made + 1 THEN {} ELSE disk[d]]
Without(d) == [e \in DOMAIN disk \ {d} |-> disk[e]]
WithFile(name, state) ==
    [disk EXCEPT ![try.dir] = {f \in @ : f.name # name} \cup {[name |-> name, state |-> state]}]

\* The next place is tried with a directory of its own, unless it has no address
\* to give, the video is too long, or no directory can be had.
Place(source, files, asks) ==
    /\ spot = "search" /\ ladder # <<>> /\ Head(ladder) = source /\ ladder' = Tail(ladder)
    /\ \/ UNCHANGED <<spot, try, disk, made>>
       \/ /\ ~(asks /\ expired) /\ made' = made + 1 /\ disk' = WithDirectory /\ spot' = "fetch"
          /\ \E parts \in files, urls \in Addresses(source) :
                try' = [source |-> source, dir |-> made + 1, parts |-> parts, urls |-> urls]
    /\ UNCHANGED <<mail, turn, permission, media, nodes, timers, expired>>

TryAPI == Place("api", DashFiles, TRUE)
TryFormats == Place("formats", FormatFiles, TRUE)
TryDouyin == Place("douyin", {<<"whole">>}, TRUE)
TryTwitter == Place("twitter", {<<"whole">>}, TRUE)
TryCandidate == Place("candidate", {<<"whole">>}, FALSE)
TryTool == Place("ytdlp", {<<"whole">>}, FALSE)

\* A try that fails takes its directory with it.
GiveUpTry == disk' = Without(try.dir) /\ spot' = "search" /\ try' = NoTry

\* downloadURLToFile checks the length it is told and the bytes it gets; what
\* it leaves of a file that fails is removed before the next address is tried.
\* yt-dlp checks for itself and may leave a file that is too big.
Fetch ==
    /\ spot = "fetch" /\ try.parts # <<>>
    /\ LET name == Head(try.parts) IN
       \/ /\ ~expired /\ \E state \in IF try.source = "ytdlp" THEN {"good", "big"} ELSE {"good"} :
                          disk' = WithFile(name, state)
          /\ \E urls \in Addresses(try.source) :
                try' = [try EXCEPT !.parts = Tail(@), !.urls = urls]
          /\ UNCHANGED spot
       \/ /\ try.urls > 1 /\ disk' = [disk EXCEPT ![try.dir] = {f \in @ : f.name # name}]
          /\ try' = [try EXCEPT !.urls = @ - 1] /\ UNCHANGED spot
       \/ try.urls = 1 /\ GiveUpTry
    /\ UNCHANGED <<mail, turn, permission, ladder, media, made, nodes, timers, expired>>

Files == IF try.dir = 0 THEN {} ELSE {f.name : f \in disk[try.dir]}
Fetched == spot = "fetch" /\ try.parts = <<>>
Apart == "sound" \in Files /\ "whole" \notin Files

\* mergeMediaToMP4: ffmpeg puts picture and sound together, which may be too
\* big although neither is.
Merge ==
    /\ Fetched /\ Apart
    /\ \/ GiveUpTry
       \/ /\ ~expired /\ \E state \in {"good", "big"} : disk' = WithFile("whole", state)
          /\ UNCHANGED <<spot, try>>
    /\ UNCHANGED <<mail, turn, permission, ladder, media, made, nodes, timers, expired>>

\* outputPath: without sound the picture is the video.
OutputPath == IF "whole" \in Files THEN "whole" ELSE "picture"

\* videoFileAllowed
Allowed == \E f \in disk[try.dir] : f.name = OutputPath /\ f.state = "good"

Accept ==
    /\ Fetched /\ ~Apart
    /\ \/ Allowed /\ Resolved(<<Heading, Node("video", [dir |-> try.dir, name |-> OutputPath])>>)
             /\ UNCHANGED disk
       \/ ~Allowed /\ GiveUpTry /\ UNCHANGED <<turn, nodes, ladder>>
    /\ UNCHANGED <<mail, permission, media, made, timers, expired>>

\* No place has the video: most say so, a post may be a picture after all.
Missing == IF Link \in {"bilibili", "douyin"} THEN <<Heading, Sorry>> ELSE <<Sorry>>

NotFound ==
    /\ spot = "search" /\ ladder = <<>>
    /\ \/ Link # "youtube" /\ Resolved(Missing)
       \/ Link = "youtube" /\ Resolved(<<Heading>>)
       \/ Link = "twitter" /\ ~expired /\ Resolved(<<Heading, Address>>)
    /\ UNCHANGED <<mail, permission, media, disk, made, timers, expired>>

-----------------------------------------------------------------------------
\* The media of a post

\* downloadTwitterMediaFile: nothing is made for a video that is too long.
StartMedium(i) ==
    /\ spot = "media" /\ media[turn][i].at = "new"
    /\ \/ /\ media' = [media EXCEPT ![turn][i].at = "loading", ![turn][i].dir = made + 1]
          /\ made' = made + 1 /\ disk' = WithDirectory
       \/ media' = [media EXCEPT ![turn][i].at = "done"] /\ UNCHANGED <<made, disk>>
    /\ UNCHANGED <<mail, turn, spot, permission, ladder, try, nodes, timers, expired>>

\* Variant with a defect: results are kept in the order in which they come.
SlotAsItComes(i) == Cardinality({j \in DOMAIN media[turn] : media[turn][j].path # NoFile}) + 1

\* Where a goroutine writes its result: resolved[index].
Slot(i) == i

\* A download ends; one that fails, or is no picture where one should be, takes
\* its directory with it.
EndMedium(i) ==
    /\ spot = "media" /\ media[turn][i].at = "loading"
    /\ LET d == media[turn][i].dir IN
       \/ /\ ~expired /\ disk' = [disk EXCEPT ![d] = {[name |-> "whole", state |-> "good"]}]
          /\ media' = [media EXCEPT ![turn][i].at = "done",
                                    ![turn][Slot(i)].path = [dir |-> d, name |-> "whole"]]
       \/ media' = [media EXCEPT ![turn][i].at = "done"] /\ disk' = Without(d)
    /\ UNCHANGED <<mail, turn, spot, permission, ladder, try, made, nodes, timers, expired>>

\* The media of a post that were had, in its order
Gathered(post) ==
    LET found[i \in 0 .. Len(post)] ==
          IF i = 0 THEN <<>>
          ELSE IF post[i].path = NoFile THEN found[i - 1] ELSE Append(found[i - 1], i)
    IN  found[Len(post)]

\* When all are done the files are named in the post's order, and what is missing
\* is counted.  The pictures' timer begins now, whenever they will be sent.
NamePost ==
    /\ spot = "media" /\ \A i \in DOMAIN media[turn] : media[turn][i].at = "done"
    /\ LET post == media[turn]
           found == Gathered(post)
           missing == Len(post) - Len(found)
           Named(m) == Node(IF m.kind = "photo" THEN "image" ELSE "video", m.path)
           pictures == {post[i].path.dir : i \in {j \in Range(found) : post[j].kind = "photo"}}
       IN  /\ Resolved(<<Heading>> \o [i \in DOMAIN found |-> Named(post[found[i]])]
                       \o IF missing > 0 THEN <<[Sorry EXCEPT !.failed = missing]>> ELSE <<>>)
           /\ timers' = IF pictures = {} THEN timers ELSE timers \cup {pictures}
    /\ UNCHANGED <<mail, permission, media, disk, made, expired>>

-----------------------------------------------------------------------------
\* A timer removes a post's pictures with their directories.
RemovePictures(pictures) ==
    /\ timers' = timers \ {pictures} /\ disk' = [d \in DOMAIN disk \ pictures |-> disk[d]]
    /\ UNCHANGED <<mail, turn, spot, permission, ladder, try, media, made, nodes, expired>>

\* The attempt at the message is over, by its time or with the process.
EndContext ==
    /\ ~expired /\ spot # "done" /\ expired' = TRUE
    /\ UNCHANGED <<mail, turn, spot, permission, ladder, try, media, disk, made, nodes, timers>>

ReturnAnswer ==
    /\ spot = "next" /\ turn > Len(mail) /\ spot' = "done"
    /\ UNCHANGED <<mail, turn, permission, ladder, try, media, disk, made, nodes, timers, expired>>

ResolverNext ==
    \/ AskPermission \/ NextLink \/ Describe
    \/ TryAPI \/ TryFormats \/ TryDouyin \/ TryTwitter \/ TryCandidate \/ TryTool
    \/ Fetch \/ Merge \/ Accept \/ NotFound \/ NamePost
    \/ turn <= Len(mail) /\ \E i \in DOMAIN media[turn] : StartMedium(i) \/ EndMedium(i)
    \/ \E pictures \in timers : RemovePictures(pictures)
    \/ EndContext \/ ReturnAnswer
    \/ spot = "done" /\ UNCHANGED resolverVars

-----------------------------------------------------------------------------
Sent(is) == {n \in Range(nodes) : n.is = is /\ n.file # NoFile}

\* When the resolver returns, a directory is left for each video of the answer,
\* with a whole file that fits, and for each picture whose timer runs, and for
\* nothing else, whichever downloads, merges and checks failed on the way.
FilesAreOwned ==
    spot = "done" =>
        /\ DOMAIN disk = {n.file.dir : n \in Sent("video")} \cup UNION timers
        /\ \A n \in Sent("video") :
              \E f \in disk[n.file.dir] : f.name = n.file.name /\ f.state = "good"

\* A post of which each medium that is shown is so as what it is and in the
\* post's order, and the others are counted
PostIsTold(l) ==
    LET shownAt == {k \in DOMAIN nodes : nodes[k].link = l /\ nodes[k].file # NoFile}
        Shows(k, i) == nodes[k].file.dir = media[l][i].dir
    IN  /\ \A k \in shownAt : \E i \in DOMAIN media[l] :
              /\ Shows(k, i)
              /\ nodes[k].is = IF media[l][i].kind = "photo" THEN "image" ELSE "video"
        /\ \A j, k \in shownAt, i, n \in DOMAIN media[l] :
              j < k /\ Shows(j, i) /\ Shows(k, n) => i < n
        /\ \E told \in Range(nodes) :
              told.link = l /\ told.failed = Len(media[l]) - Cardinality(shownAt)

\* Every medium of a post is shown as what it is and in the post's order, or is
\* counted as missing, in whatever order the downloads end.
PostIsWhole == \A l \in 1 .. turn - 1 : media[l] # <<>> => PostIsTold(l)

\* Of the media of a link none is mixed up, lost unnoticed or left on the disk,
\* whichever downloads fail and in whatever order they end.
ResolverSafe == FilesAreOwned /\ PostIsWhole
=============================================================================
