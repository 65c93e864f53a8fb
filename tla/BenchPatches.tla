----------------------------- MODULE BenchPatches -----------------------------
(***************************************************************************)
(* What bench/pathF_swebench/apply_and_test.py does to a patch before the  *)
(* evaluation: strip the code fence, merge the sections of one file, and   *)
(* recount the hunks, because models write wrong counts.  The text grows   *)
(* line by line as the model writes it; every prefix is a patch that a     *)
(* length limit can cut off there.                                         *)
(*                                                                         *)
(* A line is what the code sees of it: its kind, the path of a file header *)
(* and the two counts of a hunk header.                                    *)
(***************************************************************************)
EXTENDS Naturals, Sequences, FiniteSets, FiniteSetsExt, SequencesExt

CONSTANTS
  PatchPaths,   \* the files that a patch can name
  MaxLines      \* bound: the lines of a patch

ASSUME PatchAssumption == MaxLines \in Nat

VARIABLE text   \* the patch, a sequence of lines

Line(k)        == [kind |-> k, path |-> "-", was |-> 0, now |-> 0]
OldHeader(p)   == [Line("old") EXCEPT !.path = p]     \* --- a/p
NewHeader(p)   == [Line("new") EXCEPT !.path = p]     \* +++ b/p
Hunk(was, now) == [Line("hunk") EXCEPT !.was = was, !.now = now]
PlainKinds     == {"context", "del", "add", "noeol", "blank", "git", "fence", "prose"}
\* What the model may write.  No count of its hunks is believed, so one is as
\* good as another; the "--- /dev/null" of a new file begins like a deletion.
PatchLines == {Line(k) : k \in PlainKinds} \cup {Hunk(1, 1)}
              \cup {OldHeader(p) : p \in PatchPaths} \cup {NewHeader(p) : p \in PatchPaths}

\* After the first line of a file's header comes the second, unless the answer ends there.
Follows(line) ==
  text # <<>> /\ Last(text).kind = "old" => line = NewHeader(Last(text).path)

PatchInit  == text = <<>>
PatchGrows ==
  \E line \in PatchLines :
    Len(text) < MaxLines /\ Follows(line) /\ text' = Append(text, line)
PatchSpec  == PatchInit /\ [][PatchGrows]_text

\* The n-th of the positions in K, and the lines at those positions in their order.
Nth(K, n) == CHOOSE i \in K : Cardinality({j \in K : j <= i}) = n
Picked(lines, K) == [n \in 1..Cardinality(K) |-> lines[Nth(K, n)]]

----------------------------------------------------------------------------
(* recount_hunks.                                                          *)

\* By its first character: a line of a body, or one that ends it.  A header
\* "---" begins like a deletion, "+++" like an addition, and a blank line
\* counts as context.
InOld(l)  == l.kind \in {"context", "blank", "del", "old"}
InNew(l)  == l.kind \in {"context", "blank", "add", "new"}
InBody(l) == InOld(l) \/ InNew(l) \/ l.kind = "noeol"

\* The lines after i up to the first that is not of a body.
BodyAfter(lines, i) ==
  {j \in DOMAIN lines : j > i /\ \A k \in (i + 1)..j : InBody(lines[k])}

Recounted(lines, i) ==
  LET body == BodyAfter(lines, i)
  IN  Hunk(Cardinality({j \in body : InOld(lines[j])}),
           Cardinality({j \in body : InNew(lines[j])}))
RecountHunks(lines) ==
  [i \in DOMAIN lines |-> IF lines[i].kind = "hunk" THEN Recounted(lines, i) ELSE lines[i]]

----------------------------------------------------------------------------
(* merge_duplicate_file_sections: the header of a file that has been seen  *)
(* goes, and the git metadata right after it.                              *)

OpensSection(lines, i) ==
  lines[i].kind = "old" /\ i < Len(lines) /\ lines[i + 1].kind = "new"

\* A section of a file that has had one.
Repeats(lines, i) ==
  /\ OpensSection(lines, i)
  /\ \E e \in 1..(i - 1) : OpensSection(lines, e) /\ lines[e].path = lines[i].path

\* What goes with such a section's header at i: its second line, and the metadata from there on.
GoesWith(lines, i, j) == j >= i /\ \A k \in (i + 2)..j : lines[k].kind = "git"

Merged(lines) ==
  Picked(lines, {j \in DOMAIN lines :
                   \A i \in DOMAIN lines : Repeats(lines, i) => ~GoesWith(lines, i, j)})

----------------------------------------------------------------------------
(* normalize_patch.                                                        *)

Stripped(lines) ==
  LET solid == {i \in DOMAIN lines : lines[i].kind # "blank"}
  IN  IF solid = {} THEN <<>> ELSE SubSeq(lines, Min(solid), Max(solid))

\* An opening fence needs a line after it and a closing one a line before.
Unfenced(lines) ==
  LET fence(i) == lines[i].kind = "fence"
      from == IF Len(lines) > 1 /\ fence(1) THEN 2 ELSE 1
      upto == IF Len(lines) > from /\ fence(Len(lines)) THEN Len(lines) - 1 ELSE Len(lines)
  IN  SubSeq(lines, from, upto)

NormalizePatch(lines) == RecountHunks(Merged(Stripped(Unfenced(Stripped(lines)))))

\* files_touched_by_patch.
FilesTouched(lines) == {lines[i].path : i \in {j \in DOMAIN lines : lines[j].kind = "new"}}

----------------------------------------------------------------------------

PatchTypeOK ==
  Len(text) <= MaxLines /\ \A i \in DOMAIN text : text[i] \in PatchLines

\* The edits of a patch, and the file that each of them is made to.
EditsAt(lines)   == {i \in DOMAIN lines : lines[i].kind \in {"context", "del", "add"}}
ChangesOf(lines) == Picked(lines, EditsAt(lines))
FileAt(lines, i) ==
  LET above == {e \in 1..i : OpensSection(lines, e)}
  IN  IF above = {} THEN "-" ELSE lines[Max(above)].path
FilesOf(lines) ==
  [n \in 1..Cardinality(EditsAt(lines)) |-> FileAt(lines, Nth(EditsAt(lines), n))]

\* No section of another file stands between two of one file.
OneAfterAnother(lines) ==
  \A i, j, k \in DOMAIN lines :
    /\ i <= k /\ k <= j /\ lines[i].path = lines[j].path
    /\ OpensSection(lines, i) /\ OpensSection(lines, j) /\ OpensSection(lines, k)
    => lines[k].path = lines[i].path

Sections(lines, p) ==
  Cardinality({i \in DOMAIN lines : OpensSection(lines, i) /\ lines[i].path = p})

\* Whatever the model writes, wherever its answer ends: no edit of it is lost and
\* none overtakes another, no file named by it goes missing, every file keeps
\* one section, and doing it all again to the result changes nothing in it but
\* fences.  And if the sections of one file follow each other, every edit is
\* still made to its file.
NormalizingIsSafe ==
  LET once == NormalizePatch(text)
  IN  /\ ChangesOf(once) = ChangesOf(text)
      /\ OneAfterAnother(text) => FilesOf(once) = FilesOf(text)
      /\ FilesTouched(once) = FilesTouched(text)
      /\ \A p \in PatchPaths : Sections(once, p) <= 1
      /\ RecountHunks(once) = once /\ Merged(once) = once

\* The claim of merge_duplicate_file_sections, that it "only merges consecutive
\* duplicates or duplicates with no other file section in between": then every
\* edit would be made to its file, always.
EditsKeepTheirFile == FilesOf(NormalizePatch(text)) = FilesOf(text)

\* The claim of recount_hunks: the next "---" closes the hunk, so its counts
\* are those of the lines up to there.
HunkCountsMatchBody ==
  \A i \in DOMAIN text :
    text[i].kind = "hunk" =>
      LET closes == {j \in DOMAIN text : j > i /\ OpensSection(text, j)}
          upto   == IF closes = {} THEN text ELSE SubSeq(text, 1, Min(closes) - 1)
      IN  RecountHunks(text)[i] = Recounted(upto, i)
=============================================================================
