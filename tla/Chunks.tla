------------------------------- MODULE Chunks -------------------------------
(* How the text of an imported document is cut into chunks (chunking.py): the  *)
(* builder is fed block after block and emits a draft when its body is full or *)
(* a section ends; a chunk begins with the end of the one before it.           *)
(*                                                                             *)
(* A text is known by its block and its characters' numbers, a sentence or a   *)
(* row, with its end, by its size, a section by its headings.  A cut inside of a sentence is  *)
(* at the limit, whether or not there is a blank before it.  Pages, the words  *)
(* of headers and the clean-up of the text are left out.                       *)
EXTENDS Naturals, SequencesExt

CONSTANTS Documents, \* [blocks, pages]: sequences of Block
          MaxChars, Overlap, MinChars, ChunkLimit

VARIABLES input, chunker

chunkVars == <<input, chunker>>

\* sizes: of a text's sentences, of a table's rows; section: headings the block is under, or,
\* of a heading, with itself; <<>> for a block that names none.
Block(kind, section, sizes) == [kind |-> kind, section |-> section, sizes |-> sizes]

Sum(numbers) == FoldLeft(LAMBDA n, m : n + m, 0, numbers)
Least(a, b) == IF a < b THEN a ELSE b
HEADING_SIZE == 2

-----------------------------------------------------------------------------
(* Pieces of a body: a heading, or characters from .. to of a block.           *)

Piece(block, kind, from, to, sep, section) ==
  [block |-> block, kind |-> kind, from |-> from, to |-> to, sep |-> sep, section |-> section, again |-> FALSE]
Length(piece) == piece.to - piece.from + 1

\* Without the separator before its first piece.
Size(body) ==
  IF body = <<>> THEN 0 ELSE Sum([i \in DOMAIN body |-> body[i].sep + Length(body[i])]) - body[1].sep

\* _hard_split.
HardSplit(piece, limit) ==
  LET count == (Length(piece) + limit - 1) \div limit
  IN [k \in 1..count |-> [piece EXCEPT !.from = @ + (k - 1) * limit, !.to = Least(@, piece.from + k * limit - 1),
                                       !.sep = IF k = 1 THEN @ ELSE 0]]

\* _sentence_pieces: one for each sentence, or its parts.
Sentences(index, block, limit) ==
  LET before(k) == Sum(SubSeq(block.sizes, 1, k - 1))
      sentence(k) == Piece(index, block.kind, before(k) + 1, before(k) + block.sizes[k], 1, block.section)
  IN FlattenSeq([k \in DOMAIN block.sizes |-> HardSplit(sentence(k), limit)])

\* _group_lines: the rows, packed; a row that is too long is cut.
Groups(index, block, limit) ==
  FoldLeft(LAMBDA groups, row :
             IF groups # <<>> /\ Last(groups).sep = 1 /\ row.sep = 1
                /\ Length(Last(groups)) + Length(row) <= limit
             THEN [groups EXCEPT ![Len(groups)].to = row.to]
             ELSE Append(groups, row),
           <<>>, Sentences(index, block, limit))

\* _tail: what the next chunk repeats, at most n characters.
TailOf(body, n) ==
  FoldRight(LAMBDA piece, tail :
              LET left == n - Size(tail) - (IF tail = <<>> THEN 0 ELSE tail[1].sep)
              IN IF n <= Size(tail) + (IF tail = <<>> THEN 0 ELSE tail[1].sep) THEN tail
                 ELSE <<[piece EXCEPT !.from = piece.to + 1 - Least(left, Length(piece)), !.again = TRUE]>> \o tail,
            body, <<>>)

-----------------------------------------------------------------------------
(* The builder.                                                            *)

NewBuilder == [drafts |-> <<>>, section |-> <<>>, chunkSection |-> <<>>, body |-> <<>>, fresh |-> FALSE,
               lastKind |-> "none", beforeHeading |-> <<>>]

\* The header is shortened to a quarter of the chunk.
HeaderSize(section) == Least(MaxChars \div 4, 1 + Len(section))
Budget(section) == MaxChars - 1 - HeaderSize(section)
TightBudget(b) == Least(Budget(b.chunkSection), Budget(b.section))
OverlapChars(b) == Least(Overlap, TightBudget(b) \div 3)
PieceLimit(b) == TightBudget(b) - OverlapChars(b) - 2

Emptied(b) ==
  [b EXCEPT !.body = <<>>, !.fresh = FALSE, !.lastKind = "none", !.beforeHeading = <<>>, !.chunkSection = b.section]

\* Mutant: the heading at the end stays, and what came before it is forgotten.
FlushForgets(b, carries) ==
  IF b.beforeHeading # <<>> THEN Emptied(b)
  ELSE [Emptied(b) EXCEPT !.drafts = IF b.fresh THEN Append(@, [body |-> b.body, section |-> b.chunkSection]) ELSE @]

\* A heading with nothing after it is left to the next chunk's header.
Flush(b, carries) ==
  LET trailing == b.lastKind = "heading" /\ b.beforeHeading # <<>>
      body == IF trailing THEN b.beforeHeading ELSE b.body
      made == b.fresh /\ body # <<>>
      repeats == made /\ carries /\ b.lastKind \notin {"table", "heading"}
  IN [Emptied(b) EXCEPT !.drafts = IF made THEN Append(@, [body |-> body, section |-> b.chunkSection]) ELSE @,
                        !.body = IF repeats THEN TailOf(body, OverlapChars(b)) ELSE <<>>]

Overflows(b, piece) == b.body # <<>> /\ Size(b.body) + piece.sep + Length(piece) > Budget(b.chunkSection)

\* append of what fits a chunk: a full chunk is flushed, and the overlap given up when it leaves
\* no room.
Put(b, piece) ==
  LET flushed == IF Overflows(b, piece) THEN Flush(b, piece.kind # "table") ELSE b
      start == IF Overflows(flushed, piece) THEN Emptied(flushed) ELSE flushed
  IN [start EXCEPT !.body = Append(@, piece), !.fresh = TRUE, !.lastKind = piece.kind, !.beforeHeading = <<>>]

AppendPiece(b, piece) ==
  IF Length(piece) <= TightBudget(b) THEN Put(b, piece)
  ELSE FoldLeft(Put, b, HardSplit(piece, PieceLimit(b)))

Pour(b, pieces, sep) ==
  FoldLeft(AppendPiece, b, [k \in DOMAIN pieces |-> IF k = 1 THEN [pieces[k] EXCEPT !.sep = sep] ELSE pieces[k]])

Common(a, b) == LongestCommonPrefix({a, b})

\* The new headings, inline, as a piece of no block.
Label(old, new) ==
  LET shown == Len(new) - Len(Common(old, new))
  IN Piece(0, "heading", 1, HEADING_SIZE * (IF shown = 0 THEN 1 ELSE shown), 2, new)

\* enter_section: a body too small to stand alone goes on under an inline heading.
EnterSection(b, new) ==
  LET label == Label(b.section, new)
      moved == [b EXCEPT !.section = new]
  IN CASE new = b.section -> b
       [] new # b.section /\ ~b.fresh -> Emptied(moved)
       [] new # b.section /\ b.fresh /\ Size(b.body) >= MinChars ->
            [Flush(b, FALSE) EXCEPT !.section = new, !.chunkSection = new]
       [] OTHER ->
            IF Size(b.body) + 2 + Length(label) <= Budget(b.chunkSection)
            THEN [AppendPiece(moved, label) EXCEPT !.beforeHeading = b.body]
            ELSE Flush(moved, FALSE)

\* add_text, add_table; sections of the pieces are those they are read in.
Whole(index, block) ==
  Piece(index, block.kind, 1, Sum(block.sizes), 2, block.section)
AddText(b, index, block) ==
  LET sep == IF block.kind = "list_item" /\ b.lastKind = "list_item" THEN 1 ELSE 2
  IN IF Length(Whole(index, block)) <= PieceLimit(b) THEN Pour(b, <<Whole(index, block)>>, sep)
     ELSE Pour(b, Sentences(index, block, PieceLimit(b)), sep)
AddTable(b, index, block) ==
  IF Length(Whole(index, block)) <= TightBudget(b) THEN Pour(b, <<Whole(index, block)>>, 2)
  ELSE Pour(b, Groups(index, block, TightBudget(b)), 2)

\* feed.
Fed(b, index, block) ==
  LET entered == IF block.section = <<>> THEN b ELSE EnterSection(b, block.section)
      read == [block EXCEPT !.section = entered.section]
  IN CASE block.kind = "heading" -> entered
       [] block.kind = "table" -> AddTable(entered, index, read)
       [] OTHER -> AddText(entered, index, read)

-----------------------------------------------------------------------------
(* build_chunks.                                                           *)

NewChunker(source) == [source |-> source, next |-> 1, builder |-> NewBuilder, outcome |-> "none"]
Source == IF chunker.source = "pages" THEN input.pages ELSE input.blocks

ChunkTypeOK ==
  /\ input \in Documents
  /\ chunker.source \in {"blocks", "pages"} /\ chunker.next \in 1..(Len(Source) + 1)
  /\ chunker.outcome \in {"none", "done", "failed"}

ChunkInit == input \in Documents /\ chunker = NewChunker("blocks")

Feed ==
  /\ chunker.outcome = "none" /\ chunker.next <= Len(Source)
  /\ chunker' = [chunker EXCEPT !.next = @ + 1,
                                !.builder = Fed(chunker.builder, chunker.next, Source[chunker.next])]
  /\ UNCHANGED input

\* No text in the blocks: the paragraphs of the pages are tried.  No chunks, or too many: it
\* has failed.
Finish ==
  /\ chunker.outcome = "none" /\ chunker.next = Len(Source) + 1
  /\ LET last == Flush(chunker.builder, FALSE)
     IN chunker' = IF last.drafts = <<>> /\ chunker.source = "blocks" /\ input.pages # <<>>
                   THEN NewChunker("pages")
                   ELSE [chunker EXCEPT !.builder = last,
                                        !.outcome = IF Len(last.drafts) \in 1..ChunkLimit THEN "done" ELSE "failed"]
  /\ UNCHANGED input

ChunkNext == Feed \/ Finish

ChunkSpec == ChunkInit /\ [][ChunkNext]_chunkVars /\ WF_chunkVars(ChunkNext)

-----------------------------------------------------------------------------
(* Properties.                                                             *)

Pieces(b) == FlattenSeq([i \in DOMAIN b.drafts |-> b.drafts[i].body]) \o b.body
Texts(pieces) == SelectSeq(pieces, LAMBDA piece : piece.kind # "heading" /\ ~piece.again)
Characters(pieces) ==
  FlattenSeq([i \in DOMAIN pieces |-> [k \in 1..Length(pieces[i]) |-> <<pieces[i].block, pieces[i].from + k - 1>>]])

\* Cut into chunks, with a part of each repeated in the next, the text that was read is still
\* there, every character once and in its order.
TextIsWhole ==
  Characters(Texts(Pieces(chunker.builder))) =
  Characters(Texts([i \in 1..(chunker.next - 1) |-> Whole(i, Source[i])]))

\* A chunk, with the header that its section needs, is not longer than max_chars, and every
\* text in it is under its own headings: the header's, or the last inline ones before it.
ChunksAreFaithful ==
  \A i \in DOMAIN chunker.builder.drafts :
    LET draft == chunker.builder.drafts[i]
        Shown(k) == LET inline == SelectSeq(SubSeq(draft.body, 1, k), LAMBDA piece : piece.kind = "heading")
                    IN IF inline = <<>> THEN draft.section ELSE Last(inline).section
    IN /\ Size(draft.body) + 1 + HeaderSize(draft.section) <= MaxChars
       /\ \A k \in DOMAIN draft.body : draft.body[k].again \/ draft.body[k].section = Shown(k)

\* "table rows are never repeated": not so when a short text follows them.
RowsAreNotRepeated ==
  \A i \in DOMAIN chunker.builder.drafts :
    \A k \in DOMAIN chunker.builder.drafts[i].body :
      chunker.builder.drafts[i].body[k].kind = "table" => ~chunker.builder.drafts[i].body[k].again
=============================================================================
