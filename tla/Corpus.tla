------------------------------- MODULE Corpus -------------------------------
(***************************************************************************)
(* The fixture of the free path: load_corpus (corpus.py) reads markdown    *)
(* files line by line into the passages that can be cited, and three tools *)
(* rank them, or the notes taken from them, by the words they share with a *)
(* request (tools/retrieve.py, search_notes.py, lexicon.py).               *)
(*                                                                         *)
(* A line carries one word: a heading's, or the text's.                    *)
(***************************************************************************)
EXTENDS Integers, Sequences, FiniteSets

CONSTANTS Words,    \* scoring words
          NoWord,   \* no title, an empty line; and the word "None", which a
                    \* missing title is printed as in a heading path
          NumFiles, \* bound: files of the directory, read in the order of their names
          MaxLines, \* bound: lines of all files
          Line,     \* the lines files are made of
          Phrases,  \* what is searched for
          Limits    \* passages a search may return

ASSUME CorpusAssumption ==
    /\ NoWord \notin Words
    /\ NumFiles \in Nat \ {0} /\ MaxLines \in Nat /\ Limits \subseteq Nat \ {0}
    /\ Phrases \subseteq Seq(Words \cup {NoWord})
    /\ Line \subseteq [kind : {"title", "section", "deeper", "text"}, word : Words]
                         \cup {[kind |-> "blank", word |-> NoWord]}

VARIABLES state,   \* reading, failed (CorpusError), loaded or searched
          file,    \* the file being read
          lines,   \* history: the lines of each file read so far
          title,   \* of the file being read, as are the next three
          heading,
          body,
          sections, \* its passages so far
          corpus,  \* the passages of the files before it, at last all of them
          request, \* the last search
          result   \* and what it returned

parsing == <<title, heading, body, sections>>
corpusVars == <<state, file, lines, parsing, corpus, request, result>>

NoRequest == [tool |-> "none", phrase |-> <<>>, limit |-> 0]

CorpusInit ==
    /\ state = "reading"
    /\ file = 1
    /\ lines = [f \in 1..NumFiles |-> <<>>]
    /\ title = NoWord /\ heading = NoWord /\ body = <<>> /\ sections = <<>>
    /\ corpus = <<>>
    /\ request = NoRequest
    /\ result = <<>>

\* Lines with a word gather in a paragraph; a line without one ends it.
NoneGathered == [blocks |-> <<>>, current |-> <<>>]

GatherLine(p, word) ==
    IF word # NoWord THEN [blocks |-> p.blocks, current |-> Append(p.current, word)]
    ELSE IF p.current = <<>> THEN p
    ELSE [blocks |-> Append(p.blocks, p.current), current |-> <<>>]

Gather(text) ==
    LET upTo[i \in 0..Len(text)] ==
            IF i = 0 THEN NoneGathered ELSE GatherLine(upTo[i - 1], text[i])
    IN  upTo[Len(text)]

\* A slip: an empty line ends a paragraph, the end of the section does not.
ParagraphsEnded(text) == Gather(text).blocks

Paragraphs(text) ==
    LET last == Gather(text)
    IN  IF last.current = <<>> THEN last.blocks ELSE Append(last.blocks, last.current)

Document ==
    [chunk |-> <<file, Len(sections) + 1>>, title |-> title, heading |-> heading,
     text |-> Paragraphs(body)]

\* close(): the section being read becomes a passage.
Close == IF heading = NoWord THEN sections ELSE Append(sections, Document)

\* close() raises: the section has no text.
SectionEmpty == heading # NoWord /\ Paragraphs(body) = <<>>

Fail ==
    /\ state' = "failed"
    /\ UNCHANGED <<file, parsing, corpus, request, result>>

LinesRead ==
    LET upTo[f \in 0..NumFiles] == IF f = 0 THEN 0 ELSE upTo[f - 1] + Len(lines[f])
    IN  upTo[NumFiles]

Read(line) ==
    /\ state = "reading"
    /\ LinesRead < MaxLines
    /\ lines' = [lines EXCEPT ![file] = Append(@, line)]

ReadSection(line) ==
    /\ line.kind = "section"
    /\ Read(line)
    /\ IF SectionEmpty
         THEN Fail
         ELSE /\ sections' = Close
              /\ heading' = line.word
              /\ body' = <<>>
              /\ UNCHANGED <<state, file, title, corpus, request, result>>

ReadTitle(line) ==
    /\ line.kind = "title"
    /\ Read(line)
    /\ IF title # NoWord
         THEN Fail
         ELSE title' = line.word /\ UNCHANGED <<state, file, heading, body, sections, corpus, request, result>>

\* A deeper heading is text of its section, and is not refused before the first.
ReadDeeper(line) ==
    /\ line.kind = "deeper"
    /\ Read(line)
    /\ body' = Append(body, line.word)
    /\ UNCHANGED <<state, file, title, heading, sections, corpus, request, result>>

ReadText(line) ==
    /\ line.kind \in {"text", "blank"}
    /\ Read(line)
    /\ IF line.kind = "text" /\ heading = NoWord
         THEN Fail
         ELSE body' = Append(body, line.word)
              /\ UNCHANGED <<state, file, title, heading, sections, corpus, request, result>>

\* The last line was read: the open section is closed, and the file must have
\* had a title and a section.  It may be the last file or not.
EndFile ==
    /\ state = "reading"
    /\ lines' = lines
    /\ IF SectionEmpty \/ title = NoWord \/ Close = <<>>
         THEN Fail
         ELSE /\ corpus' = corpus \o Close
              /\ title' = NoWord /\ heading' = NoWord /\ body' = <<>> /\ sections' = <<>>
              /\ \/ state' = "loaded" /\ file' = file
                 \/ file < NumFiles /\ state' = state /\ file' = file + 1
              /\ UNCHANGED <<request, result>>

-----------------------------------------------------------------------------
(* Searching.                                                              *)

\* title, heading path "title > heading", and text.
Terms(d) == {d.title, d.heading} \cup UNION {{d.text[i][j] : j \in 1..Len(d.text[i])} : i \in 1..Len(d.text)}

\* What stands side by side in the text a lexicon looks a phrase up in.
Stretches(d) ==
    {IF d.title = NoWord THEN <<NoWord>> ELSE <<d.title, d.title>>, <<d.heading>> \o d.text[1]}
        \cup {d.text[i] : i \in 2..Len(d.text)}

Mentions(d, phrase) ==
    \E s \in Stretches(d) : \E i \in 0..(Len(s) - Len(phrase)) :
        phrase = SubSeq(s, i + 1, i + Len(phrase))

Overlap(d, phrase) == Cardinality({phrase[i] : i \in 1..Len(phrase)} \cap Terms(d))

\* Shared words; in the lexicon two more for the phrase itself.
Score(d, req) ==
    Overlap(d, req.phrase) + IF req.tool = "lexicon" /\ Mentions(d, req.phrase) THEN 2 ELSE 0

Scored(req) == {i \in 1..Len(corpus) : Score(corpus[i], req) > 0}

\* Sorted by score, and then by position.
Better(a, b, req) ==
    \/ Score(corpus[a], req) > Score(corpus[b], req)
    \/ Score(corpus[a], req) = Score(corpus[b], req) /\ a < b

\* The positions in a set, best first and cut at the limit.
BestOf(scored, req) ==
    LET place(i) == Cardinality({j \in scored : j = i \/ Better(j, i, req)})
        at(n) == CHOOSE i \in scored : place(i) = n
        size == IF Cardinality(scored) < req.limit THEN Cardinality(scored) ELSE req.limit
    IN  [n \in 1..size |-> at(n)]

\* A slip: the limit is taken before the order.
RankedCutting(req) ==
    BestOf({i \in Scored(req) : Cardinality({j \in Scored(req) : j <= i}) <= req.limit}, req)

Ranked(req) == BestOf(Scored(req), req)

\* retrieve ranks passages, and search_notes the notes taken from them, by overlap.
Search ==
    /\ state = "loaded"
    /\ \E tool \in {"overlap", "lexicon"}, phrase \in Phrases, limit \in Limits :
          LET req == [tool |-> tool, phrase |-> phrase, limit |-> limit]
          IN  request' = req /\ result' = Ranked(req)
    /\ state' = "searched"
    /\ UNCHANGED <<file, lines, parsing, corpus>>

CorpusNext ==
    \/ \E line \in Line : ReadSection(line) \/ ReadTitle(line) \/ ReadDeeper(line) \/ ReadText(line)
    \/ EndFile
    \/ Search

-----------------------------------------------------------------------------
(* Properties.                                                             *)

\* What a file holds, by the places of its lines.
Of(text, kinds) == {i \in 1..Len(text) : text[i].kind \in kinds}
Sections(text) == Of(text, {"section"})
Number(text, s) == Cardinality({x \in Sections(text) : x <= s})

\* The lines from a section's heading to the next one, and those with its words.
Section(text, s) ==
    {j \in (s + 1)..Len(text) : \A k \in (s + 1)..j : text[k].kind # "section"}
Inside(text, s) == Section(text, s) \cap Of(text, {"text", "deeper"})

\* Those of them that a paragraph begins with.
Opening(text, s) ==
    {x \in Inside(text, s) :
        \A y \in Inside(text, s) : y < x => \E b \in Of(text, {"blank"}) : y < b /\ b < x}

\* What a file must look like to be loaded.
WellFormed(text) ==
    /\ Cardinality(Of(text, {"title"})) = 1
    /\ Sections(text) # {}
    /\ \A i \in Of(text, {"text"}) : \E s \in Sections(text) : s < i
    /\ \A s \in Sections(text) : Inside(text, s) # {}

Flat(blocks) ==
    LET upTo[i \in 0..Len(blocks)] == IF i = 0 THEN <<>> ELSE upTo[i - 1] \o blocks[i]
    IN  upTo[Len(blocks)]

\* The words of the lines at some places, in order.
WordsAt(text, places) ==
    LET at(n) == CHOOSE i \in places : Cardinality({j \in places : j <= i}) = n
    IN  [n \in 1..Cardinality(places) |-> text[at(n)].word]

\* The title before the end of a section.
TitleOf(text, s, word) ==
    LET titles == {t \in Of(text, {"title"}) : t < s \/ t \in Section(text, s)}
    IN  IF titles = {} THEN word = NoWord ELSE \A t \in titles : word = text[t].word

\* A passage is a section of a file: its heading, its title and its words, in
\* as many paragraphs.
Tells(d, text, s) ==
    /\ d.heading = text[s].word
    /\ TitleOf(text, s, d.title)
    /\ Flat(d.text) = WordsAt(text, Inside(text, s))
    /\ Len(d.text) = Cardinality(Opening(text, s))

(***************************************************************************)
(* Loading loses and invents nothing: the corpus of well-formed files has  *)
(* one passage for each section, in order, under its heading, holding the  *)
(* words of its lines and no others, in as many paragraphs as the file     *)
(* has; a file that is not well formed is not loaded at all, and nothing   *)
(* else is refused.  Two things a file may do unnoticed: words in deeper   *)
(* headings before the first section are in no passage, and a passage      *)
(* whose section ends before the title line has no title.                  *)
(***************************************************************************)
CorpusIsFaithful ==
    /\ state = "failed" => \E f \in 1..file : ~WellFormed(lines[f])
    /\ state \in {"loaded", "searched"} =>
          /\ \A f \in 1..file : WellFormed(lines[f])
          /\ \A f \in 1..file : \A s \in Sections(lines[f]) :
                \E i \in 1..Len(corpus) : corpus[i].chunk = <<f, Number(lines[f], s)>>
          /\ \A i \in 1..Len(corpus) : \E f \in 1..file : \E s \in Sections(lines[f]) :
                corpus[i].chunk = <<f, Number(lines[f], s)>> /\ Tells(corpus[i], lines[f], s)
          /\ \A i, j \in 1..Len(corpus) : i < j =>
                \/ corpus[i].chunk[1] < corpus[j].chunk[1]
                \/ corpus[i].chunk[1] = corpus[j].chunk[1] /\ corpus[i].chunk[2] < corpus[j].chunk[2]

(***************************************************************************)
(* A search returns the best there is: only passages that score, each      *)
(* once, none left out that scores more than one returned, nor as much     *)
(* and stands earlier; fewer than the limit only if no more score.         *)
(***************************************************************************)
SearchIsBest ==
    state = "searched" =>
        LET score(i) == Score(corpus[i], request)
            scoring == {i \in 1..Len(corpus) : score(i) > 0}
            returned == {result[i] : i \in 1..Len(result)}
            before(a, b) == score(a) > score(b) \/ (score(a) = score(b) /\ a < b)
        IN  /\ returned \subseteq scoring
            /\ Len(result) = IF Cardinality(scoring) < request.limit
                               THEN Cardinality(scoring) ELSE request.limit
            /\ \A i \in 1..Len(result), j \in 1..Len(result) :
                  i < j => before(result[i], result[j])
            /\ \A a \in returned, b \in scoring \ returned : before(a, b)
=============================================================================
