----------------------------- MODULE LabelQueue -----------------------------
(***************************************************************************)
(* The label queue of datalayer/labelstore.py: a file of one label a line  *)
(* that several processes append to and readers scan.  A batch goes out in *)
(* one write, which the disk may take a part of only; what is written is   *)
(* on the disk when the operating system gets to it.                       *)
(***************************************************************************)
EXTENDS SequencesExt

VARIABLES text,         \* the file: lines with the feedback they are from, their
                        \* status, and whether the line breaks off
          tears,        \* writes that were cut short
          cut           \* lines lost to power cuts

queueVars == <<text, tears, cut>>

Line(id, label) == [id |-> id, label |-> label, status |-> "pending", torn |-> FALSE]

\* A reader's line i: one that breaks off has run into the next.
Readable(i) == ~text[i].torn /\ (i > 1 => ~text[i - 1].torn)

ReadableLines == {i \in DOMAIN text : Readable(i)}

QueueInit == text = <<>> /\ tears = 0 /\ cut = 0

\* enqueue_many: the whole batch in one write to a file opened for appending.
EnqueueMany(id, labels) ==
  /\ text' = text \o [i \in 1 .. Cardinality(labels) |->
                        Line(id, SetToSeq(labels)[i])]
  /\ UNCHANGED <<tears, cut>>

\* The disk is full: some lines get out and the next one breaks off or does not
\* start, and the write raises.
EnqueueTears(id, labels) ==
  /\ labels # {}
  /\ tears' = tears + 1
  /\ \E n \in 0 .. Cardinality(labels) - 1, torn \in BOOLEAN :
       LET out == [i \in 1 .. n + 1 |-> [Line(id, SetToSeq(labels)[i])
                                          EXCEPT !.torn = i = n + 1]]
       IN  text' = text \o IF torn THEN out ELSE SubSeq(out, 1, n)
  /\ UNCHANGED cut

\* An annotator, outside this code, settles the status of a label; one that is
\* rejected counts as little as one that waits.
Annotate(i, status) ==
  /\ text[i].status = "pending"
  /\ text' = [text EXCEPT ![i].status = status]
  /\ UNCHANGED <<tears, cut>>

\* The machine loses power: what the operating system has not written out is gone,
\* and nothing in the code asks it to.
PowerCut == \E n \in 0 .. Len(text) : /\ text' = SubSeq(text, 1, n)
                                      /\ cut' = cut + Len(text) - n
                                      /\ UNCHANGED tears

\* count_by_category: the reviewed lines of a category, whatever their source.
CountByCategory(c) == Cardinality({i \in ReadableLines :
                        text[i].label.category = c /\ text[i].status = "reviewed"})
=============================================================================
