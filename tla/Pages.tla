-------------------------------- MODULE Pages --------------------------------
(***************************************************************************)
(* The browser pages: the research page, which streams a run and then      *)
(* fetches it, and the compare and pack pages, which post two files        *)
(* (static/app.js and the script of templates/pack.html).  A page's        *)
(* handlers run one at a time; what interleaves are the answers they wait  *)
(* for, and the user.  A part of the page is known by the submission whose *)
(* content it shows, 0 if it is hidden or empty.                           *)
(*                                                                         *)
(* Of the server (Runtime, RuntimeSurface) a page sees a refusal, or a     *)
(* stream of trace events and then `done` or `error`, in pieces of any     *)
(* size, that may break off.                                               *)
(***************************************************************************)
EXTENDS Integers, Sequences, FiniteSets

CONSTANTS MaxSubmissions, \* bound: submissions of the form
          Lengths         \* trace events a run may have

ASSUME PagesAssumption == MaxSubmissions \in Nat /\ Lengths \subseteq Nat /\ Lengths # {}

Submissions == 1..MaxSubmissions

VARIABLES tab,      \* the page this tab shows
          n,        \* submissions so far; the last is the one the user waits for
          button,   \* whether the submit button may be pressed
          phase,    \* what each submission waits for
          run,      \* the run behind each submission: its events and how it ends
          got,      \* halves of frames read of each stream
          timeline, \* the research page: the events listed,
          status,   \*   whose status line it is,
          outcome,  \*   whose artifact is shown
          error,    \* every page: whose error message is shown
          columns,  \* the compare page: whose runs stand side by side
          summary,  \* compare and pack: whose result is shown
          fetching, \* submissions whose artifact is being fetched
          late,     \* history: those among them when a later one was submitted
          silent    \* history: submissions that ended with nothing to show

wire == <<phase, run, got>>
live == <<button, timeline, status, outcome, fetching>>
files == <<columns, summary>>
vars == <<tab, n, wire, live, files, error, late, silent>>

Runs == [length : Lengths, ending : {"done", "error"}]

Init ==
    /\ tab \in {"research", "compare", "pack"}
    /\ n = 0
    /\ button = "enabled"
    /\ phase = [s \in Submissions |-> "none"]
    /\ run \in [Submissions -> {CHOOSE x \in Runs : TRUE}]
    /\ got = [s \in Submissions |-> 0]
    /\ timeline = <<>>
    /\ status = 0 /\ outcome = 0 /\ error = 0 /\ columns = 0 /\ summary = 0
    /\ fetching = {} /\ late = {} /\ silent = {}

Goto(s, label) == phase' = [phase EXCEPT ![s] = label]

-----------------------------------------------------------------------------
(* The research page.                                                      *)

\* A slip: the button stays pressable while a run is streamed.
SubmitAgain ==
    /\ tab = "research"
    /\ n < MaxSubmissions
    /\ n' = n + 1
    /\ \E x \in Runs : run' = [run EXCEPT ![n + 1] = x]
    /\ Goto(n + 1, "asked")
    /\ timeline' = <<>> /\ status' = n + 1 /\ outcome' = 0 /\ error' = 0
    /\ late' = late \cup fetching
    /\ UNCHANGED <<tab, got, button, fetching, files, silent>>

\* The page is cleared and the button disabled, which also stops the return key.
Submit ==
    /\ tab = "research"
    /\ button = "enabled"
    /\ n < MaxSubmissions
    /\ n' = n + 1
    /\ \E x \in Runs : run' = [run EXCEPT ![n + 1] = x]
    /\ Goto(n + 1, "asked")
    /\ button' = "disabled"
    /\ timeline' = <<>> /\ status' = n + 1 /\ outcome' = 0 /\ error' = 0
    /\ late' = late \cup fetching
    /\ UNCHANGED <<tab, got, fetching, files, silent>>

StreamStarts(s) ==
    /\ phase[s] = "asked"
    /\ Goto(s, "reading")
    /\ UNCHANGED <<tab, n, run, got, live, files, error, late, silent>>

\* A slip: only the request has a catch, not the reading of its answer.
StreamFailsQuietly(s) ==
    /\ tab = "research"
    /\ phase[s] \in {"asked", "reading"}
    /\ Goto(s, "over")
    /\ error' = IF phase[s] = "asked" THEN s ELSE error
    /\ button' = "enabled"
    /\ UNCHANGED <<tab, n, run, got, timeline, status, outcome, fetching, files, late, silent>>

\* A slip: the button is given back when a stream ends well.
StreamFailsHolding(s) ==
    /\ tab = "research"
    /\ phase[s] \in {"asked", "reading"}
    /\ Goto(s, "over")
    /\ error' = s
    /\ UNCHANGED <<tab, n, run, got, live, files, late, silent>>

\* A refused request, a failed one, or a read that fails: the catch, then finally.
StreamFails(s) ==
    /\ tab = "research"
    /\ phase[s] \in {"asked", "reading"}
    /\ Goto(s, "over")
    /\ error' = s
    /\ button' = "enabled"
    /\ UNCHANGED <<tab, n, run, got, timeline, status, outcome, fetching, files, late, silent>>

\* Frames of a stream: its trace events and the one that ends it, each in two halves.
Frames(s) == run[s].length + 1

\* A slip: the half frame that ends a piece is not kept for the next.
NextFrameDropping(s) == (got[s] + 1) \div 2 + 1

\* The first frame a piece can complete, with the half that the buffer kept.
NextFrame(s) == got[s] \div 2 + 1

\* After the last frame pump ends, and finally gives the button back.
AfterPiece(s, ended) ==
    IF ended THEN Goto(s, "over") /\ button' = "enabled" ELSE UNCHANGED <<phase, button>>

\* One piece: its trace events are appended; `error` shows the message; `done`
\* starts a fetch of the artifact that nothing waits for.
ReadPiece(s) ==
    /\ phase[s] = "reading"
    /\ \E upto \in (got[s] + 1)..(2 * Frames(s)) :
          LET whole == NextFrame(s)..(upto \div 2)
              ended == Frames(s) \in whole
              traces == Cardinality(whole \ {Frames(s)})
          IN  /\ got' = [got EXCEPT ![s] = upto]
              /\ timeline' = timeline \o [i \in 1..traces |-> <<s, NextFrame(s) + i - 1>>]
              /\ error' = IF ended /\ run[s].ending = "error" THEN s ELSE error
              /\ fetching' = IF ended /\ run[s].ending = "done" THEN fetching \cup {s} ELSE fetching
              /\ AfterPiece(s, ended)
    /\ UNCHANGED <<tab, n, run, status, outcome, files, late, silent>>

\* The stream ends before its last frame: pump returns without a word, and what
\* the buffer holds is lost.
StreamBreaksOff(s) ==
    /\ phase[s] = "reading"
    /\ Goto(s, "over")
    /\ button' = "enabled"
    /\ silent' = silent \cup {s}
    /\ UNCHANGED <<tab, n, run, got, timeline, status, outcome, fetching, files, error, late>>

\* renderArtifact, whatever the page has become meanwhile.
ArtifactComes(s) ==
    /\ s \in fetching
    /\ fetching' = fetching \ {s}
    /\ status' = s
    /\ outcome' = s
    /\ UNCHANGED <<tab, n, wire, button, timeline, files, error, late, silent>>

\* Evicted, or the request failed: a rejection that nothing handles.
ArtifactFails(s) ==
    /\ s \in fetching
    /\ fetching' = fetching \ {s}
    /\ silent' = silent \cup {s}
    /\ UNCHANGED <<tab, n, wire, button, timeline, status, outcome, files, error, late>>

ResearchStep(s) ==
    StreamStarts(s) \/ StreamFails(s) \/ ReadPiece(s) \/ StreamBreaksOff(s)
        \/ ArtifactComes(s) \/ ArtifactFails(s)

-----------------------------------------------------------------------------
(* The compare and pack pages, which disable nothing.                      *)

Pending == {s \in Submissions : phase[s] \in {"reading files", "posted"}}

SubmitFiles ==
    /\ tab # "research"
    /\ n < MaxSubmissions
    /\ n' = n + 1
    /\ Goto(n + 1, "reading files")
    /\ error' = 0 /\ columns' = 0 /\ summary' = 0
    /\ late' = late \cup Pending
    /\ UNCHANGED <<tab, run, got, live, silent>>

\* Both files parse: the compare page shows them and both pages post them.
FilesRead(s) ==
    /\ phase[s] = "reading files"
    /\ Goto(s, "posted")
    /\ columns' = IF tab = "compare" THEN s ELSE columns
    /\ UNCHANGED <<tab, n, run, got, live, summary, error, late, silent>>

ResultComes(s) ==
    /\ phase[s] = "posted"
    /\ Goto(s, "over")
    /\ summary' = s
    /\ UNCHANGED <<tab, n, run, got, live, columns, error, late, silent>>

\* A file that cannot be read or parsed, a refusal, a failed request.
FilesFail(s) ==
    /\ s \in Pending
    /\ Goto(s, "over")
    /\ error' = s
    /\ UNCHANGED <<tab, n, run, got, live, files, late, silent>>

FilesStep(s) == FilesRead(s) \/ ResultComes(s) \/ FilesFail(s)

-----------------------------------------------------------------------------

Next == Submit \/ SubmitFiles \/ \E s \in Submissions : ResearchStep(s) \/ FilesStep(s)

\* The server ends every stream (Runtime) and the network does not stay silent
\* for ever; nobody need submit anything.
Spec ==
    /\ Init /\ [][Next]_vars
    /\ \A s \in Submissions : WF_vars(ResearchStep(s)) /\ WF_vars(FilesStep(s))

-----------------------------------------------------------------------------
(* Properties.                                                             *)

(***************************************************************************)
(* Shapes; and the button is disabled exactly while one stream, and never  *)
(* a second, is asked for or read.                                         *)
(***************************************************************************)
TypeOK ==
    LET Shown == 0..MaxSubmissions
    IN  /\ tab \in {"research", "compare", "pack"}
        /\ {n, status, outcome, error, columns, summary} \subseteq Shown
        /\ phase \in [Submissions -> {"none", "asked", "reading", "reading files", "posted", "over"}]
        /\ run \in [Submissions -> Runs]
        /\ \A s \in Submissions : got[s] \in 0..(2 * Frames(s))
        /\ timeline \in Seq(Submissions \X Nat)
        /\ fetching \cup late \cup silent \subseteq Submissions
        /\ button \in {"enabled", "disabled"}
        /\ Cardinality({s \in Submissions : phase[s] \in {"asked", "reading"}})
              = IF button = "disabled" THEN 1 ELSE 0

(***************************************************************************)
(* The page shows one run: its timeline is the run submitted last, event   *)
(* by event without a hole, its message and status are that run's; only an *)
(* artifact may be another's, and only one whose fetch was still under way *)
(* when the page was submitted again.  The compare and pack pages show one *)
(* comparison, unless two were under way at once.                          *)
(***************************************************************************)
PageShowsOneRun ==
    /\ \A i \in 1..Len(timeline) : timeline[i] = <<n, i>>
    /\ tab = "research" => error \in {0, n}
    /\ outcome \in {0, n} \cup late
    /\ tab = "research" => status \in {n} \cup late
    /\ late = {} => {error, columns, summary} \subseteq {0, n}
    /\ {error, columns, summary} \subseteq {0, n} \cup late

(***************************************************************************)
(* A research page at rest has told the user how the run ended: with its   *)
(* whole timeline and its artifact, or with a message.  The exceptions are *)
(* a stream that broke off and an artifact that could not be fetched.      *)
(***************************************************************************)
NoSilentEnd ==
    tab = "research" /\ n > 0 /\ button = "enabled" /\ n \notin fetching \cup silent =>
        \/ error = n
        \/ outcome # 0 /\ Len(timeline) = run[n].length

(***************************************************************************)
(* The button comes back, whatever becomes of the stream, and every        *)
(* comparison that is under way ends.                                      *)
(***************************************************************************)
WaitsEnd == []<>(button = "enabled" /\ Pending = {})
=============================================================================
