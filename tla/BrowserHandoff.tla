--------------------------- MODULE BrowserHandoff ---------------------------
(***************************************************************************)
(* From a download the browser extension captured to a row of the queue:   *)
(* the native host that forwards the request over the named pipe and waits *)
(* ten seconds, the app's handler (ipc/mod.rs), the registry of prompts    *)
(* that shows one prompt at a time (prompts.rs) and waits five minutes,    *)
(* the user at the prompt window (commands/mod.rs), and the enqueue that   *)
(* looks for duplicates, picks the paths and writes the row                *)
(* (state/enqueue.rs, state/browser_adoption.rs).                          *)
(*                                                                         *)
(* A path is <<name, index>>, "name (index)" in the download folder; its   *)
(* partial file has the same key.  Windows compares names without case:    *)
(* Folded[n] is what the disk makes of n, and the sets files and parts     *)
(* hold folded paths.  The queue appears only as far as it moves rows and  *)
(* files; DownloadQueue has the rest of it.                                *)
(***************************************************************************)
EXTENDS Integers, Sequences, FiniteSets, FiniteSetsExt, SequencesExt

CONSTANTS
    Requests,        \* hand-offs of the browser, one native host each
    Tests,           \* prompts of the settings page's "test handoff"
    Captures,        \* what a request may ask: [type, url, name]
    TestCapture,     \* what a test prompt asks
    Urls, Names, Folded,
    Batches,         \* what the user adds as a batch: sequences of [url, name]
    MaxIndex,        \* bound: "name (index)" up to this index
    MaxJobs,         \* bound: rows ever created
    None

\* An enqueue request of the automatic capture, and one the user asked for in the
\* popup or the context menu of the extension (source.entry_point).
Types == {"prompt_download", "enqueue_download", "enqueue_by_user",
          "adopt_browser_download"}

ASSUME FoldedAssumption == Folded \in [Names -> Names]
ASSUME CapturesAssumption ==
    /\ Captures \subseteq [type : Types, url : Urls, name : Names]
    /\ TestCapture \in [type : {"prompt_download"}, url : Urls, name : Names]
\* The code tries ten thousand spellings of a name and then takes the base path
\* whoever has it; here no more rows are created than there are spellings.
ASSUME BoundsAssumption == MaxJobs \in Nat \ {0} /\ MaxIndex \in Nat /\ MaxIndex >= MaxJobs
ASSUME BatchesAssumption == Batches \subseteq Seq([url : Urls, name : Names])
ASSUME ActorsAssumption == Requests \cap Tests = {} /\ None \notin Requests \cup Tests

VARIABLES
    up,        \* the app runs and listens
    ask,       \* what each prompt or request is about
    host,      \* the native host of each request: "idle", "waiting", "done"
    told,      \* what the host told the browser
    h,         \* the app's handler of each request: its next step
    found,     \* the prompt was prepared with a row as its duplicate
    choice,    \* the download decision the handler acts on
    active, order, prompts, mail,   \* PromptRegistry, and the oneshot channels
    window,    \* the prompt window is open
    s,         \* the part of RuntimeState and of the disk an enqueue works on
    made,      \* history: requests that added a row
    unsaved,   \* history: requests whose save failed after the row was added
    contested  \* history: rows given a path that was another row's

registry == <<active, order, prompts, mail>>
pipe     == <<up, ask, host, told>>
handler  == <<h, found, choice>>
history  == <<made, unsaved, contested>>
vars == <<pipe, handler, registry, window, s, history>>

Askers   == Requests \cup Tests
Policies == {"ReturnExisting", "Allow", "ReplaceExisting"}
Answers  == {"queued", "duplicate", "dismissed", "rejected"}
Details  == [policy : Policies, name : Names]
Actions  == {"ReturnExisting", "DownloadAnyway", "Overwrite"}
Decisions == [do : {"Download"}, action : Actions]
             \cup [do : {"Download"}, action : {"Rename"}, name : Names]
             \cup {[do |-> "Cancel"], [do |-> "ShowExisting"]}
Waiters  == {"showing", "waiting"}          \* the handler holds the receiver
Stages   == Waiters \cup {"enqueuing", "saving", "done", "timedOut"}

ASSUME NoneAssumption == None \notin Stages \cup Answers \cup {"unreachable"}

-----------------------------------------------------------------------------
(* Rows, paths and the in-memory enqueue.                                  *)

JobIds == 1..MaxJobs
Paths  == Names \X (0..MaxIndex)
OnDisk(p) == <<Folded[p[1]], p[2]>>
Base(n)   == <<n, 0>>

\* path_matches compares without case.
RowsAt(st, p) == {i \in DOMAIN st.jobs : OnDisk(st.jobs[i].path) = OnDisk(p)}

\* duplicate_download_match: a row with the URL, a row with the path, the file
\* itself, its partial file.  Rows are in the order they were pushed.
DuplicateMatch(st, url, p) ==
    LET byUrl  == {i \in DOMAIN st.jobs : st.jobs[i].url = url}
        byPath == RowsAt(st, p)
        job    == IF byUrl # {} THEN Min(byUrl) ELSE IF byPath # {} THEN Min(byPath) ELSE 0
    IN  [job |-> job, any |-> job # 0 \/ OnDisk(p) \in st.files \cup st.parts]

\* job_blocks_removal.  "Active" is a row with a worker, slot included.
BlocksRemoval(st, i) == st.jobs[i].state = "Active"

\* Mutant: a row that has written nothing yet does not hold its path.
AllocateFromDisk(st, n) ==
    LET free(i) == OnDisk(<<n, i>>) \notin st.files \cup st.parts
        choices == {i \in 0..MaxIndex : free(i)}
    IN  IF choices = {} THEN Base(n) ELSE <<n, Min(choices)>>

\* allocate_target_paths compares the spelling of paths with the rows, and
\* asks the disk; the last resort is the base path.
AllocateTarget(st, n) ==
    LET free(i) == /\ \A j \in DOMAIN st.jobs : st.jobs[j].path # <<n, i>>
                   /\ OnDisk(<<n, i>>) \notin st.files \cup st.parts
        choices == {i \in 0..MaxIndex : free(i)}
    IN  IF choices = {} THEN Base(n) ELSE <<n, Min(choices)>>

PushJob(st, url, p, state) ==
    LET row == [url |-> url, path |-> p, state |-> state]
    IN  [st EXCEPT !.jobs = [i \in DOMAIN @ \cup {st.next} |->
                                IF i = st.next THEN row ELSE @[i]],
                   !.next = @ + 1]

\* Mutant: the partial files of every row with the URL go.
RemoveDuplicatesParts(st, i) ==
    {[st EXCEPT !.jobs = [j \in DOMAIN @ \ {i} |-> @[j]],
                !.parts = @ \ {OnDisk(st.jobs[j].path) :
                                j \in {k \in DOMAIN st.jobs : st.jobs[k].url = st.jobs[i].url}}]}

\* The replaced row goes, and its partial file unless it was completed; nobody
\* looks whether the file could be removed.
RemoveDuplicate(st, i) ==
    LET part == IF st.jobs[i].state = "Completed" THEN {} ELSE {OnDisk(st.jobs[i].path)}
    IN  {[st EXCEPT !.jobs = [j \in DOMAIN @ \ {i} |-> @[j]], !.parts = @ \ gone] :
            gone \in SUBSET part}

\* prepare_overwrite_target: nobody asks whose files these are.
Overwrite(st, p) == [st EXCEPT !.files = @ \ {OnDisk(p)}, !.parts = @ \ {OnDisk(p)}]

\* The target is removed and then the partial file cannot be: an error.
HalfOverwrite(st, p) == [st EXCEPT !.files = @ \ {OnDisk(p)}]

Refused(st)   == [st |-> st, answer |-> "rejected"]
Duplicate(st) == [st |-> st, answer |-> "duplicate"]
Queued(st, url, p) == [st |-> PushJob(st, url, p, "Queued"), answer |-> "queued"]

\* Mutant: the row is pushed before the target is prepared.
PushBeforeOverwrite(st, url, name, policy) ==
    LET p     == Base(name)
        match == DuplicateMatch(st, url, p)
        rests == IF match.job # 0 THEN RemoveDuplicate(st, match.job) ELSE {st}
    IN  {Refused(st)} \cup
        IF policy = "ReturnExisting" /\ match.job # 0 THEN {Duplicate(st)}
        ELSE IF policy # "ReplaceExisting" \/ ~match.any
             THEN {Queued(st, url, AllocateTarget(st, name))}
        ELSE IF match.job # 0 /\ BlocksRemoval(st, match.job) THEN {}
        ELSE UNION {{Refused(PushJob(rest, url, p, "Queued")),
                     Queued(Overwrite(rest, p), url, p)} : rest \in rests}

\* The ways enqueue_download_in_memory can end.  A destination that cannot be
\* used refuses the request before anything changed; a target or a partial
\* file that cannot be deleted refuses it after the duplicate was removed.
EnqueueOutcomes(st, url, name, policy) ==
    LET p     == Base(name)
        match == DuplicateMatch(st, url, p)
        rests == IF match.job # 0 THEN RemoveDuplicate(st, match.job) ELSE {st}
    IN  {Refused(st)} \cup
        IF policy = "ReturnExisting" /\ match.job # 0 THEN {Duplicate(st)}
        ELSE IF policy # "ReplaceExisting" \/ ~match.any
             THEN {Queued(st, url, AllocateTarget(st, name))}
        ELSE IF match.job # 0 /\ BlocksRemoval(st, match.job) THEN {}
        ELSE UNION {{Refused(rest), Refused(HalfOverwrite(rest, p)),
                     Queued(Overwrite(rest, p), url, p)} : rest \in rests}

\* Rows that share a path with the newest row of st.
SharedByNewest(st) ==
    LET new    == st.next - 1
        others == RowsAt(st, st.jobs[new].path) \ {new}
    IN  IF others = {} THEN {} ELSE others \cup {new}

\* Is a new row at a path of another row one of the three known ways: an
\* overwrite of a base path, an adopted file, or a name spelled otherwise?
SpelledOtherwise(st) ==
    LET new == st.next - 1
    IN  \A j \in RowsAt(st, st.jobs[new].path) \ {new} : st.jobs[j].path # st.jobs[new].path

EnqueueInMemory(url, name, policy, outcome) ==
    /\ outcome \in EnqueueOutcomes(s, url, name, policy)
    /\ outcome.answer = "queued" => s.next \in JobIds
    /\ s' = outcome.st
    /\ contested' = IF outcome.answer = "queued"
                       /\ (policy = "ReplaceExisting" \/ SpelledOtherwise(outcome.st))
                    THEN contested \cup SharedByNewest(outcome.st) ELSE contested

\* enqueue_download_entries: every entry under one lock; an error puts back
\* what was there before the first, so a batch is added as a whole.
AddEntry(st, entry) ==
    LET match == DuplicateMatch(st, entry.url, Base(entry.name))
    IN  IF match.job # 0 THEN st
        ELSE PushJob(st, entry.url, AllocateTarget(st, entry.name), "Queued")

\* The store after the first k entries.
BatchRun(st, entries) ==
    LET after[k \in 0..Len(entries)] ==
            IF k = 0 THEN st ELSE AddEntry(after[k-1], entries[k])
    IN  after

AddBatch(entries) ==
    /\ up
    /\ s.next + Len(entries) - 1 \in JobIds
    /\ s' = BatchRun(s, entries)[Len(entries)]
    /\ s' # s
    /\ contested' = contested \cup
         {i \in DOMAIN s'.jobs : \E j \in DOMAIN s'.jobs \ {i} :
            OnDisk(s'.jobs[i].path) = OnDisk(s'.jobs[j].path)
            /\ s'.jobs[i].path # s'.jobs[j].path}
    /\ UNCHANGED <<pipe, handler, registry, window, made, unsaved>>

-----------------------------------------------------------------------------
(* The extension and the native host.                                      *)

\* The browser's download is canceled before the hand-off; for the older
\* "adopt" the browser has completed the file.
Captured(r, c) ==
    /\ host[r] = "idle"
    /\ ask'  = [ask EXCEPT ![r] = c]
    /\ host' = [host EXCEPT ![r] = "waiting"]
    /\ s' = IF c.type = "adopt_browser_download"
            THEN [s EXCEPT !.files = @ \cup {OnDisk(Base(c.name))}] ELSE s
    /\ UNCHANGED <<up, told, handler, registry, window, history>>

Tell(r, answer) ==
    /\ host' = [host EXCEPT ![r] = "done"]
    /\ told' = [told EXCEPT ![r] = answer]

\* validate_protocol and the parsers: the host refuses before it forwards.
HostRefuses(r) ==
    /\ host[r] = "waiting" /\ h[r] = None
    /\ Tell(r, "rejected")
    /\ UNCHANGED <<up, ask, handler, registry, window, s, history>>

\* No pipe: the host starts the app and tries again until the deadline.
LaunchApp(r) ==
    /\ host[r] = "waiting" /\ ~up
    /\ up' = TRUE
    /\ UNCHANGED <<ask, host, told, handler, registry, window, s, history>>

\* Ten seconds after the request was sent the host gives up, whatever the app
\* is doing with it.
HostGivesUp(r) ==
    /\ host[r] = "waiting"
    /\ Tell(r, "unreachable")
    /\ UNCHANGED <<up, ask, handler, registry, window, s, history>>

\* The instances of the pipe are used up: prompts nobody answers hold theirs,
\* and so do clients that ask for the status.
PipeBusy(r) ==
    /\ host[r] = "waiting" /\ h[r] = None /\ up
    /\ Tell(r, "rejected")
    /\ UNCHANGED <<up, ask, handler, registry, window, s, history>>

-----------------------------------------------------------------------------
(* The handler takes a request.                                            *)

Goto(r, pc) == h' = [h EXCEPT ![r] = pc]

\* The response is written; a host that gave up is not there to read it.
Answer(r, answer) ==
    /\ Goto(r, "done")
    /\ IF r \in Requests /\ host[r] = "waiting"
       THEN Tell(r, answer) ELSE UNCHANGED <<host, told>>

Accepted(r) == host[r] = "waiting" /\ h[r] = None /\ up

Refuse(r) ==
    /\ Accepted(r)
    /\ Answer(r, "rejected")
    /\ UNCHANGED <<up, ask, found, choice, registry, window, s, history>>

\* validate_host_request, thirty side effects in ten seconds, and a client that
\* is neither the bundled native host nor the app itself.
RefuseInvalid(r)   == Refuse(r)
RefuseLimited(r)   == Refuse(r)
RefuseUntrusted(r) == Refuse(r)

\* PromptRegistry::enqueue.
EnqueuePrompt(r) ==
    /\ active' = IF active = None THEN r ELSE active
    /\ order'  = IF active = None THEN order ELSE Append(order, r)
    /\ prompts' = prompts \cup {r}
    /\ Goto(r, "showing")
    /\ UNCHANGED mail

\* prepare_download_prompt looks for the duplicate under a read lock; the
\* answer is as old as the prompt when the user decides.  A capture of the
\* automatic mode asks only when it is a duplicate; what the user asked for in
\* the popup or the context menu is not prepared, and never asks.
PromptOrEnqueue(r) ==
    LET c == ask[r]
        match == DuplicateMatch(s, c.url, Base(c.name))
    IN  /\ c.type \in {"prompt_download", "enqueue_download", "enqueue_by_user"}
        /\ Accepted(r)
        /\ found' = [found EXCEPT ![r] = match.job # 0 /\ c.type # "enqueue_by_user"]
        /\ IF c.type = "prompt_download" \/ (c.type = "enqueue_download" /\ match.any)
           THEN EnqueuePrompt(r) /\ UNCHANGED choice
           ELSE /\ Goto(r, "enqueuing")
                /\ choice' = [choice EXCEPT ![r] =
                     [policy |-> "ReturnExisting", name |-> c.name]]
                /\ UNCHANGED registry
        /\ UNCHANGED <<pipe, window, s, history>>

\* adopt_browser_download: a completed row for the file where the browser put
\* it; only a completed row with exactly that target is a duplicate.
Adopt(r) ==
    LET p == Base(ask[r].name)
        same == {i \in DOMAIN s.jobs : s.jobs[i].path = p /\ s.jobs[i].state = "Completed"}
        added == PushJob(s, ask[r].url, p, "Completed")
    IN  /\ ask[r].type = "adopt_browser_download"
        /\ Accepted(r)
        /\ IF OnDisk(p) \notin s.files
           THEN Answer(r, "rejected") /\ UNCHANGED <<s, made, contested>>
           ELSE IF same # {}
           THEN Answer(r, "duplicate") /\ UNCHANGED <<s, made, contested>>
           ELSE /\ s.next \in JobIds
                /\ s' = added
                /\ made' = made \cup {r}
                /\ contested' = contested \cup SharedByNewest(added)
                /\ Goto(r, "saving") /\ UNCHANGED <<host, told>>
        /\ UNCHANGED <<up, ask, found, choice, registry, window, unsaved>>

\* The settings page asks for a prompt of its own.
TestHandoff(t) ==
    /\ up /\ h[t] = None
    /\ found' = [found EXCEPT ![t] =
                   DuplicateMatch(s, TestCapture.url, Base(TestCapture.name)).job # 0]
    /\ EnqueuePrompt(t)
    /\ UNCHANGED <<pipe, choice, window, s, history>>

-----------------------------------------------------------------------------
(* The registry of prompts and the window.                                 *)

\* PromptRegistry::resolve: only the active prompt can be resolved.
Resolve(r) ==
    /\ prompts' = prompts \ {r}
    /\ active'  = IF order = <<>> THEN None ELSE Head(order)
    /\ order'   = IF order = <<>> THEN order ELSE Tail(order)

\* Mutant: the handler just stops listening.
GiveUpSilently(r, resolves) ==
    /\ UNCHANGED <<active, order, prompts>>
    /\ mail' = [mail EXCEPT ![r] = None]

\* The handler gives its own prompt up; its error is ignored.
GiveUpPrompt(r, resolves) ==
    /\ IF resolves /\ active = r
       THEN Resolve(r) ELSE UNCHANGED <<active, order, prompts>>
    /\ mail' = [mail EXCEPT ![r] = None]

\* show_download_prompt_window: a window that is there is shown again.
ShowWindow(r) ==
    /\ h[r] = "showing"
    /\ window' = TRUE
    /\ Goto(r, "waiting")
    /\ UNCHANGED <<pipe, found, choice, registry, s, history>>

\* It cannot be opened: the request is refused, and its prompt is resolved
\* when it is the active one (the test hand-off does not even try).
WindowFails(r) ==
    /\ h[r] = "showing" /\ ~window
    /\ GiveUpPrompt(r, r \in Requests)
    /\ Answer(r, "rejected")
    /\ UNCHANGED <<up, ask, found, choice, window, s, history>>

\* complete_prompt_action: resolve, then show the next prompt or close.  The
\* decision reaches the handler if it still holds the receiver.  A prompt that
\* arrives between the two loses its window, as in DismissWindow.
UserDecides(d) ==
    /\ window /\ active # None
    /\ Resolve(active)
    /\ mail' = IF h[active] \in Waiters THEN [mail EXCEPT ![active] = d] ELSE mail
    /\ window' = (order # <<>>)
    /\ UNCHANGED <<pipe, handler, s, history>>

\* The user closes the window itself; the prompt stays.
DismissWindow ==
    /\ window
    /\ window' = FALSE
    /\ UNCHANGED <<pipe, handler, registry, s, history>>

\* Five minutes have passed; the host, with its ten seconds, has long given up
\* and does not read the answer.  A decision that is in the channel already may
\* lose to the timer.
PromptTimesOut(r) ==
    /\ h[r] = "waiting" /\ host[r] = "done"
    /\ GiveUpPrompt(r, TRUE)
    /\ Goto(r, "timedOut")
    /\ UNCHANGED <<pipe, found, choice, window, s, history>>

\* The duplicate action as a policy; only a rename changes the name.
PromptEnqueueDetails(r, d) ==
    [policy |-> IF d.action = "ReturnExisting" THEN "ReturnExisting"
                ELSE IF d.action = "Overwrite" THEN "ReplaceExisting" ELSE "Allow",
     name   |-> IF d.action = "Rename" THEN d.name ELSE ask[r].name]

\* What the handler makes of the user's decision.
DecisionArrives(r) ==
    /\ h[r] = "waiting" /\ mail[r] # None
    /\ mail' = [mail EXCEPT ![r] = None]
    /\ IF mail[r].do = "Download"
       THEN /\ choice' = [choice EXCEPT ![r] = PromptEnqueueDetails(r, mail[r])]
            /\ Goto(r, "enqueuing")
            /\ UNCHANGED <<host, told>>
       ELSE /\ Answer(r, IF mail[r].do = "ShowExisting" /\ found[r]
                         THEN "duplicate" ELSE "dismissed")
            /\ UNCHANGED choice
    /\ UNCHANGED <<up, ask, found, active, order, prompts, window, s, history>>

-----------------------------------------------------------------------------
(* Enqueue, save, answer.                                                  *)

\* enqueue_download_with_options: the row is in memory when the lock is let go.
Enqueue(r) ==
    /\ h[r] = "enqueuing"
    /\ \E outcome \in EnqueueOutcomes(s, ask[r].url, choice[r].name, choice[r].policy) :
         /\ EnqueueInMemory(ask[r].url, choice[r].name, choice[r].policy, outcome)
         /\ IF outcome.answer = "queued"
            THEN Goto(r, "saving") /\ UNCHANGED <<host, told>>
            ELSE Answer(r, outcome.answer)
    /\ made' = IF s'.next # s.next THEN made \cup {r} ELSE made
    /\ choice' = [choice EXCEPT ![r] = None]
    /\ UNCHANGED <<up, ask, found, registry, window, unsaved>>

\* persist_state outside of the lock; its error is the answer, and the row stays.
Persist(r) ==
    /\ h[r] = "saving"
    /\ \/ Answer(r, "queued") /\ UNCHANGED unsaved
       \/ Answer(r, "rejected") /\ unsaved' = unsaved \cup {r}
    /\ UNCHANGED <<up, ask, found, choice, registry, window, s, made, contested>>

-----------------------------------------------------------------------------
(* The queue, as far as it moves rows and files.                           *)

SetState(i, state) == [s EXCEPT !.jobs[i].state = state]

\* A worker opens the partial file.
Claim(i) ==
    /\ i \in DOMAIN s.jobs /\ s.jobs[i].state = "Queued"
    /\ s' = [SetState(i, "Active") EXCEPT !.parts = @ \cup {OnDisk(s.jobs[i].path)}]

\* The partial file is moved to the target.
Finish(i) ==
    /\ i \in DOMAIN s.jobs /\ s.jobs[i].state = "Active"
    /\ s' = [SetState(i, "Completed") EXCEPT !.parts = @ \ {OnDisk(s.jobs[i].path)},
                                             !.files = @ \cup {OnDisk(s.jobs[i].path)}]

\* Paused or failed: the partial file stays.
Stop(i) ==
    /\ i \in DOMAIN s.jobs /\ s.jobs[i].state = "Active"
    /\ s' = SetState(i, "Stopped")

\* clear_completed_jobs: completed rows go, their files stay.
ClearCompleted ==
    LET gone == {i \in DOMAIN s.jobs : s.jobs[i].state = "Completed"}
    IN  /\ gone # {}
        /\ s' = [s EXCEPT !.jobs = [j \in DOMAIN @ \ gone |-> @[j]]]

QueueMoves ==
    /\ \/ \E i \in JobIds : Claim(i) \/ Finish(i) \/ Stop(i)
       \/ ClearCompleted
    /\ UNCHANGED <<pipe, handler, registry, window, history>>

-----------------------------------------------------------------------------
Init ==
    /\ up = FALSE
    /\ ask = [r \in Askers |-> TestCapture]
    /\ host = [r \in Requests |-> "idle"]
    /\ told = [r \in Requests |-> None]
    /\ h = [r \in Askers |-> None]
    /\ found = [r \in Askers |-> FALSE]
    /\ choice = [r \in Askers |-> None]
    /\ active = None /\ order = <<>> /\ prompts = {}
    /\ mail = [r \in Askers |-> None]
    /\ window = FALSE
    /\ s = [jobs |-> <<>>, next |-> 1, files |-> {}, parts |-> {}]
    /\ made = {} /\ unsaved = {} /\ contested = {}

HostStep(r) ==
    \/ \E c \in Captures : Captured(r, c)
    \/ HostRefuses(r) \/ LaunchApp(r) \/ HostGivesUp(r) \/ PipeBusy(r)

HandlerStep(r) ==
    \/ ShowWindow(r) \/ WindowFails(r) \/ DecisionArrives(r) \/ Enqueue(r) \/ Persist(r)

Next ==
    \/ \E r \in Requests : HostStep(r) \/ PromptOrEnqueue(r) \/ Adopt(r)
                              \/ RefuseInvalid(r) \/ RefuseLimited(r) \/ RefuseUntrusted(r)
                              \/ PromptTimesOut(r)
    \/ \E t \in Tests : TestHandoff(t)
    \/ \E r \in Askers : HandlerStep(r)
    \/ \E d \in Decisions : UserDecides(d)
    \/ \E entries \in Batches : AddBatch(entries)
    \/ DismissWindow \/ QueueMoves

Spec == Init /\ [][Next]_vars

-----------------------------------------------------------------------------
(* Properties.                                                             *)

\* Types; only what waits in the registry is active or in the line.
TypeOK ==
    /\ up \in BOOLEAN /\ window \in BOOLEAN
    /\ ask \in [Askers -> [type : Types, url : Urls, name : Names]]
    /\ host \in [Requests -> {"idle", "waiting", "done"}]
    /\ told \in [Requests -> Answers \cup {"unreachable", None}]
    /\ h \in [Askers -> Stages \cup {None}]
    /\ found \in [Askers -> BOOLEAN]
    /\ choice \in [Askers -> Details \cup {None}]
    /\ mail \in [Askers -> Decisions \cup {None}]
    /\ prompts \subseteq Askers /\ active \in prompts \cup {None}
    /\ order \in Seq(prompts)
    /\ prompts = ToSet(order) \cup ({active} \ {None})
    /\ DOMAIN s.jobs \subseteq 1..s.next - 1 /\ s.next \in 1..MaxJobs + 1
    /\ \A i \in DOMAIN s.jobs : s.jobs[i] \in
          [url : Urls, path : Paths, state : {"Queued", "Active", "Completed", "Stopped"}]
    /\ s.files \cup s.parts \subseteq Paths
    /\ unsaved \subseteq made /\ made \subseteq Askers
    /\ contested \subseteq JobIds

\* Two rows of the queue never have one file, whatever mixture of captures,
\* prompts, overwrites and batches made them, but for the three ways the code
\* has: an overwrite takes the base path of its name though another row than
\* the replaced one lives there, an adopted file is where a row downloads to,
\* and a name that differs in case only is given a path of its own
\* (enqueue_download_in_memory, allocate_target_paths, adopt_browser_download).
PathsAreDisjoint ==
    \A i, j \in DOMAIN s.jobs :
        OnDisk(s.jobs[i].path) = OnDisk(s.jobs[j].path) => i = j \/ {i, j} \subseteq contested

\* The partial file of a running download is not taken away by an enqueue:
\* overwriting and replacing wait for the worker, unless the running row's path
\* is one of the contested ones (prepare_overwrite_target, job_blocks_removal).
RunningKeepsItsPart ==
    \A i \in DOMAIN s.jobs :
        s.jobs[i].state = "Active" /\ i \notin contested => OnDisk(s.jobs[i].path) \in s.parts

\* What the browser was told stays true: "queued" has a row, and no row ever
\* comes of a request that was called dismissed, duplicate or refused, though
\* the user may still press Download in a prompt nobody waits for.  A failed
\* save is the exception: the row it refused is downloaded
\* (run_prompt_download, prompt_decision_or_timeout, enqueue_download_with_options).
AnswerIsTrue ==
    \A r \in Requests :
        /\ told[r] = "queued" => r \in made
        /\ told[r] \in {"dismissed", "duplicate", "rejected"} => r \notin made \ unsaved

\* A handler that stops listening takes its prompt out of the registry, unless
\* another prompt is active: no prompt that is on the screen is one nobody
\* waits for because its own request was answered while it was shown
\* (PromptRegistry::resolve, prompt_decision_or_timeout, run_prompt_download).
NoPromptIsAbandoned ==
    [][\A r \in Requests : h[r] \in Waiters /\ h'[r] \notin Waiters /\ r \in prompts'
                             => active # r]_vars

\* "Timeout resolves the prompt as cancel and advances any queued prompt."
TimedOutPromptIsResolved == \A r \in prompts : h[r] # "timedOut"
=============================================================================
