------------------------------- MODULE Releases ------------------------------
(***************************************************************************)
(* How a version of the agent gets from the publisher to a node: the       *)
(* syncer that copies the newest release of each channel from the          *)
(* publisher's list into the database (installersync/syncer.go), uploads,  *)
(* deletions and rollouts of the administrator (update_handlers.go), the   *)
(* offers and the manifest and installer endpoints (update.go,             *)
(* setup_handlers.go), and the agent that takes an offer, downloads and    *)
(* checks it (updater.go up to the sha256; Updater has the rest).          *)
(*                                                                         *)
(* Versions are numbers in the order of CompareVersions.  The bytes of an  *)
(* installer, and so their hash, are named by the version and by who put   *)
(* it there.  The two endpoints read the database at two times, and so do  *)
(* an offer and the download it leads to.  The node runs Windows: the      *)
(* artifact for Linux only says whether a release is empty.                *)
(***************************************************************************)
EXTENDS Naturals, Sequences, SequencesExt

CONSTANTS
    MaxVersion,   \* bound: versions 1..MaxVersion, the node starts with 0
    MaxEvents     \* bound: publications, requests, restarts and failures

ASSUME ReleasesAssumption == MaxVersion \in Nat /\ MaxEvents \in Nat

VARIABLES
    upstream,   \* the publisher's list, oldest first
    releases,   \* releases with their artifacts, in the order of created_at
    syncer,     \* etag (a length of the list, plus one), the releases the pass has yet to see
    upload,     \* a POST of a release that is between two statements
    fleet,      \* the node: version, channel of its binding; in the database: channel and pin
    agent,      \* orchestration under way, blacklist, versions in backoff, manual check
    push,       \* UPDATE_AVAILABLE messages under way
    lost,       \* history: versions deleted, or not stored, since the list was last read
    events

relVars == <<upstream, releases, syncer, upload, fleet, agent, push, lost, events>>

Channel == {"stable", "dev"}
Published == [ver : 1..MaxVersion, chan : Channel]
Bytes == [ver : 1..MaxVersion, by : {"sync", "upload"}]
NoBytes == [ver |-> 0, by |-> "none"]
ReleaseRow == [ver : 1..MaxVersion, chan : Channel, setup : Bytes \cup {NoBytes}, linux : BOOLEAN]
Manifest == [ver : 1..MaxVersion, sha : Bytes, chan : Channel]
NoManifest == [ver |-> 0, sha |-> NoBytes, chan |-> "none"]
Job == [what : Manifest, forced : BOOLEAN]
NoJob == [what |-> NoManifest, forced |-> FALSE]
NoUpload == [ver |-> 0, left |-> <<>>]
Parts == {<<"setup">>, <<"linux">>, <<"setup", "linux">>}

ReleasesTypeOK ==
    /\ upstream \in Seq(Published)
    /\ releases \in Seq(ReleaseRow)
    /\ syncer \in [etag : Nat, todo : Seq(Published), fetching : BOOLEAN]
    /\ upload \in {NoUpload} \cup [ver : 1..MaxVersion, left : Parts]
    /\ fleet \in [ver : 0..MaxVersion, bound : Channel, chan : Channel, pin : 0..MaxVersion]
    /\ agent \in [job : Job \cup {NoJob}, blacklist : SUBSET (1..MaxVersion),
                  backoff : SUBSET (1..MaxVersion), forcing : BOOLEAN]
    /\ push \subseteq Manifest
    /\ lost \subseteq 1..MaxVersion
    /\ events \in 0..MaxEvents
    \* The key of releases, and the bytes of a release are its own.
    /\ \A i, j \in DOMAIN releases : releases[i].ver = releases[j].ver => i = j
    /\ \A i \in DOMAIN releases : releases[i].setup.ver \in {0, releases[i].ver}

\* A server that has read an empty list, and one connected node.
ReleasesInit ==
    /\ upstream = <<>> /\ releases = <<>>
    /\ syncer = [etag |-> 1, todo |-> <<>>, fetching |-> FALSE]
    /\ upload = NoUpload
    /\ fleet = [ver |-> 0, bound |-> "stable", chan |-> "stable", pin |-> 0]
    /\ agent = [job |-> NoJob, blacklist |-> {}, backoff |-> {}, forcing |-> FALSE]
    /\ push = {} /\ lost = {} /\ events = 0

Event == events < MaxEvents /\ events' = events + 1

-----------------------------------------------------------------------------
(* The tables *)

Rows(v) == {i \in DOMAIN releases : releases[i].ver = v}

(* INSERT ... ON CONFLICT (version): the channel changes, created_at stays. *)
CreateRelease(v, ch, rows) ==
    IF \E i \in DOMAIN rows : rows[i].ver = v
    THEN [i \in DOMAIN rows |-> IF rows[i].ver = v THEN [rows[i] EXCEPT !.chan = ch] ELSE rows[i]]
    ELSE Append(rows, [ver |-> v, chan |-> ch, setup |-> NoBytes, linux |-> FALSE])

PutSetup(v, by, rows) ==
    [i \in DOMAIN rows |-> IF rows[i].ver = v THEN [rows[i] EXCEPT !.setup = [ver |-> v, by |-> by]]
                                              ELSE rows[i]]

\* GetLatestReleaseByChannel, as a sequence of one row or none.
Latest(ch) ==
    LET of == SelectSeq(releases, LAMBDA r : r.chan = ch)
    IN IF of = <<>> THEN <<>> ELSE <<Last(of)>>

Served(ch) == IF Latest(ch) = <<>> THEN NoBytes ELSE Latest(ch)[1].setup

-----------------------------------------------------------------------------
(* The syncer *)

Publish ==
    /\ Event
    /\ \E p \in Published :
          /\ \A i \in DOMAIN upstream : upstream[i].ver # p.ver
          /\ upstream' = Append(upstream, p)
    /\ UNCHANGED <<releases, syncer, upload, fleet, agent, push, lost>>

Oldest(ch) ==
    LET of == SelectSeq(upstream, LAMBDA p : p.chan = ch)
    IN IF of = <<>> THEN <<>> ELSE <<Head(of)>>

\* The first of the channel: GitHub lists the newest first.
Newest(ch) ==
    LET of == SelectSeq(upstream, LAMBDA p : p.chan = ch)
    IN IF of = <<>> THEN <<>> ELSE <<Last(of)>>

listReleasesOldest ==
    /\ syncer.todo = <<>>
    /\ syncer.etag # Len(upstream) + 1
    /\ syncer' = [etag |-> Len(upstream) + 1, todo |-> Oldest("stable") \o Oldest("dev"),
                  fetching |-> FALSE]
    /\ lost' = {}
    /\ UNCHANGED <<upstream, releases, upload, fleet, agent, push, events>>

(* One pass begins with the list, if it is not the one of the etag. *)
listReleases ==
    /\ syncer.todo = <<>>
    /\ syncer.etag # Len(upstream) + 1
    /\ syncer' = [etag |-> Len(upstream) + 1, todo |-> Newest("stable") \o Newest("dev"),
                  fetching |-> FALSE]
    /\ lost' = {}
    /\ UNCHANGED <<upstream, releases, upload, fleet, agent, push, events>>

SyncNext == syncer' = [syncer EXCEPT !.todo = Tail(@), !.fetching = FALSE]

(* A release that is there with its installer is passed over; any other is
   fetched, from both links, and compared with the sha256 beside it. *)
SyncLookup ==
    /\ syncer.todo # <<>> /\ ~syncer.fetching
    /\ IF \E i \in Rows(Head(syncer.todo).ver) : releases[i].setup # NoBytes
       THEN SyncNext
       ELSE syncer' = [syncer EXCEPT !.fetching = TRUE]
    /\ UNCHANGED <<upstream, releases, upload, fleet, agent, push, lost, events>>

SyncStore ==
    /\ syncer.fetching
    /\ LET p == Head(syncer.todo)
       IN /\ releases' = PutSetup(p.ver, "sync", CreateRelease(p.ver, p.chan, releases))
          /\ lost' = lost \ {p.ver}
    /\ SyncNext
    /\ UNCHANGED <<upstream, upload, fleet, agent, push, events>>

(* No asset yet, no answer, another hash: logged, and on to the next. *)
SyncFails ==
    /\ syncer.fetching /\ Event
    /\ lost' = lost \cup {Head(syncer.todo).ver}
    /\ SyncNext
    /\ UNCHANGED <<upstream, releases, upload, fleet, agent, push>>

ServerRestarts ==
    /\ Event
    /\ syncer' = [etag |-> 0, todo |-> <<>>, fetching |-> FALSE]
    /\ upload' = NoUpload
    /\ push' = {}
    /\ UNCHANGED <<upstream, releases, fleet, agent, lost>>

-----------------------------------------------------------------------------
(* The administrator *)

(* The installer is validated before the row is written, the archive for
   Linux after it. *)
adminUploadRelease ==
    /\ Event /\ upload = NoUpload
    /\ \E p \in Published, parts \in Parts :
          /\ releases' = CreateRelease(p.ver, p.chan, releases)
          /\ upload' = [ver |-> p.ver, left |-> parts]
    /\ UNCHANGED <<upstream, syncer, fleet, agent, push, lost>>

(* The next part is stored; the row is there, or DeleteRelease has ended the
   request. *)
UploadPart ==
    /\ upload # NoUpload
    /\ releases' = IF Head(upload.left) = "setup" THEN PutSetup(upload.ver, "upload", releases)
                   ELSE [i \in DOMAIN releases |-> IF i \in Rows(upload.ver)
                                                   THEN [releases[i] EXCEPT !.linux = TRUE]
                                                   ELSE releases[i]]
    /\ upload' = IF Len(upload.left) = 1 THEN NoUpload ELSE [upload EXCEPT !.left = Tail(@)]
    /\ UNCHANGED <<upstream, syncer, fleet, agent, push, lost, events>>

UploadFails ==
    /\ upload # NoUpload /\ Event
    /\ upload' = NoUpload
    /\ UNCHANGED <<upstream, releases, syncer, fleet, agent, push, lost>>

(* The artifacts go with the row: an upload that still has its id fails. *)
adminDeleteRelease ==
    /\ Event
    /\ \E i \in DOMAIN releases :
          /\ releases' = RemoveAt(releases, i)
          /\ lost' = lost \cup {releases[i].ver}
          /\ upload' = IF upload.ver = releases[i].ver THEN NoUpload ELSE upload
    /\ UNCHANGED <<upstream, syncer, fleet, agent, push>>

(* The pin, if its release is there, else the newest of the node's channel. *)
targetReleaseFor(f) ==
    IF \E i \in DOMAIN releases : releases[i].ver = f.pin
    THEN SelectSeq(releases, LAMBDA r : r.ver = f.pin)
    ELSE Latest(f.chan)

(* At HELLO, at every heartbeat and after a rollout.  The link names the
   channel of the release, not the release. *)
maybeOfferUpdate(f) ==
    LET rel == targetReleaseFor(f)
    IN IF rel = <<>> \/ rel[1].ver = f.ver \/ rel[1].setup = NoBytes THEN {}
       ELSE {[ver |-> rel[1].ver, sha |-> rel[1].setup, chan |-> rel[1].chan]}

Rollout(f) == fleet' = f /\ push' = push \cup maybeOfferUpdate(f)

(* A channel, the node's own if the request names none, and a version to pin;
   a version that is not there is refused after the channel was set. *)
adminRollout ==
    /\ Event
    /\ \/ \E ch \in Channel :
             \/ Rollout([fleet EXCEPT !.chan = ch])
             \/ \E i \in DOMAIN releases : Rollout([fleet EXCEPT !.chan = ch, !.pin = releases[i].ver])
             \/ fleet' = [fleet EXCEPT !.chan = ch] /\ UNCHANGED push
       \/ fleet' = [fleet EXCEPT !.pin = 0] /\ UNCHANGED push
    /\ UNCHANGED <<upstream, releases, syncer, upload, agent, lost>>

Heartbeat ==
    /\ push' = push \cup maybeOfferUpdate(fleet)
    /\ UNCHANGED <<upstream, releases, syncer, upload, fleet, agent, lost, events>>

-----------------------------------------------------------------------------
(* The agent *)

setupManifest(ch) ==
    IF Served(ch) = NoBytes THEN {}
    ELSE {[ver |-> Served(ch).ver, sha |-> Served(ch), chan |-> ch]}

(* The gate of orchestrateTrigger. *)
Takes(m, force) ==
    /\ agent.job = NoJob
    /\ m.ver > fleet.ver
    /\ m.ver \notin agent.blacklist
    /\ force \/ m.ver \notin agent.backoff

HandlePush ==
    /\ \E m \in push :
          /\ push' = push \ {m}
          /\ agent' = IF Takes(m, FALSE) THEN [agent EXCEPT !.job = [what |-> m, forced |-> FALSE]] ELSE agent
    /\ UNCHANGED <<upstream, releases, syncer, upload, fleet, lost, events>>

(* The poll. *)
CheckNow ==
    /\ \E m \in setupManifest(fleet.bound) :
          Takes(m, FALSE) /\ agent' = [agent EXCEPT !.job = [what |-> m, forced |-> FALSE]]
    /\ UNCHANGED <<upstream, releases, syncer, upload, fleet, push, lost, events>>

(* xnc upgrade: the channel of the binding at once, the check behind it. *)
Upgrade ==
    /\ Event
    /\ ~agent.forcing /\ ~agent.job.forced
    /\ \E ch \in Channel : fleet' = [fleet EXCEPT !.bound = ch]
    /\ agent' = [agent EXCEPT !.forcing = TRUE]
    /\ UNCHANGED <<upstream, releases, syncer, upload, push, lost>>

ForceCheck ==
    /\ agent.forcing
    /\ LET offered == {m \in setupManifest(fleet.bound) : Takes(m, TRUE)}
       IN agent' = [agent EXCEPT !.forcing = FALSE,
                                 !.job = IF offered = {} THEN @
                                         ELSE [what |-> CHOOSE m \in offered : TRUE, forced |-> TRUE]]
    /\ UNCHANGED <<upstream, releases, syncer, upload, fleet, push, lost, events>>

Failed(v) == [agent EXCEPT !.job = NoJob, !.backoff = @ \cup {v}]

recordFailureKeepsGate(v) == [agent EXCEPT !.backoff = @ \cup {v}]

(* The orchestration ends, and the version waits for an hour or more. *)
recordFailure(v) == Failed(v)

hashEqual(got, want) == got = want

(* The link gives what its channel has by now. *)
applyUpdate ==
    /\ agent.job # NoJob
    /\ LET m == agent.job.what
           got == Served(m.chan)
       IN \/ /\ got = NoBytes
             /\ agent' = recordFailure(m.ver)
             /\ UNCHANGED <<fleet, push>>
          \/ /\ got # NoBytes /\ ~hashEqual(got, m.sha)
             /\ agent' = [recordFailure(m.ver) EXCEPT !.blacklist = @ \cup {m.ver}]
             /\ UNCHANGED <<fleet, push>>
          \/ /\ got # NoBytes /\ hashEqual(got, m.sha)
             /\ fleet' = [fleet EXCEPT !.ver = got.ver]
             /\ agent' = [agent EXCEPT !.job = NoJob, !.backoff = @ \ {m.ver}, !.forcing = FALSE]
             /\ push' = {}
    /\ UNCHANGED <<upstream, releases, syncer, upload, lost, events>>

DownloadFails ==
    /\ agent.job # NoJob /\ Event
    /\ agent' = recordFailure(agent.job.what.ver)
    /\ UNCHANGED <<upstream, releases, syncer, upload, fleet, push, lost>>

BackoffEnds ==
    /\ \E v \in agent.backoff : agent' = [agent EXCEPT !.backoff = @ \ {v}]
    /\ UNCHANGED <<upstream, releases, syncer, upload, fleet, push, lost, events>>

-----------------------------------------------------------------------------
ReleasesNext ==
    \/ Publish \/ listReleases \/ SyncLookup \/ SyncStore \/ SyncFails \/ ServerRestarts
    \/ adminUploadRelease \/ UploadPart \/ UploadFails \/ adminDeleteRelease \/ adminRollout
    \/ Heartbeat \/ HandlePush \/ CheckNow \/ Upgrade \/ ForceCheck
    \/ applyUpdate \/ DownloadFails \/ BackoffEnds

(* The syncer's ticker, the heartbeats, the poll every six hours and the
   goroutines of the agent go on; backoffs end; a request is answered. *)
ReleasesFairness ==
    /\ WF_relVars(listReleases) /\ WF_relVars(SyncLookup) /\ WF_relVars(SyncStore)
    /\ WF_relVars(Heartbeat) /\ WF_relVars(HandlePush) /\ WF_relVars(CheckNow)
    /\ WF_relVars(ForceCheck) /\ WF_relVars(applyUpdate) /\ WF_relVars(BackoffEnds)
    /\ WF_relVars(UploadPart)

ReleasesSpec == ReleasesInit /\ [][ReleasesNext]_relVars /\ ReleasesFairness

-----------------------------------------------------------------------------
(* A node changes to the version it was told to take, although the link that
   comes with the version stands for whatever the channel has when it is
   used. *)
InstalledMatches ==
    [][fleet'.ver # fleet.ver => fleet'.ver = agent.job.what.ver]_relVars

(* A pass of the syncer takes no channel off the air: the row and its
   installer become visible together, also where a row without one was there
   before.  Only a version uploaded to the other channel during the fetch is
   taken away from it. *)
SyncKeepsServing ==
    [][syncer' # syncer => \A ch \in Channel :
          Served(ch) # NoBytes /\ Served(ch)' = NoBytes =>
             syncer.todo # <<>> /\ Head(syncer.todo).chan # ch /\ Head(syncer.todo).ver = Served(ch).ver]_relVars

(* The newest release of each channel of the publisher gets into the
   database, with its installer, except one whose download failed, or which
   was deleted, since the list changed. *)
SyncCatchesUp ==
    <>[](\A ch \in Channel : \A i \in DOMAIN Newest(ch) :
            \/ Newest(ch)[i].ver \in lost
            \/ \E j \in Rows(Newest(ch)[i].ver) : releases[j].setup # NoBytes)

(* In the end the node runs what it is offered, or more, on both ways, or has
   put it on its blacklist, or the channel of the release serves nothing. *)
Converges ==
    <>[](\A m \in maybeOfferUpdate(fleet) \cup setupManifest(fleet.bound) :
            m.ver <= fleet.ver \/ m.ver \in agent.blacklist \/ Served(m.chan) = NoBytes)

(* Claims of comments that do not hold.  A failed download is tried again in
   the next pass; a refused upload leaves no release without artifacts; a
   deleted release stays deleted; a version whose bytes are good is not
   blacklisted; a node gets to the version it is pinned to. *)
SyncRetries ==
    <>[](\A ch \in Channel : \A i \in DOMAIN Newest(ch) : Rows(Newest(ch)[i].ver) # {})
RefusedLeavesNothing ==
    upload = NoUpload => \A i \in DOMAIN releases : releases[i].setup # NoBytes \/ releases[i].linux
DeletedStays == [][syncer' # syncer => \A i \in DOMAIN releases' : releases'[i].ver \notin lost]_relVars
GoodNotBlacklisted == agent.blacklist = {}
PinHonoured == <>[](\A m \in maybeOfferUpdate(fleet) : m.ver <= fleet.ver)
=============================================================================
