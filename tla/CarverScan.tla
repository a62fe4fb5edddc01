----------------------------- MODULE CarverScan -----------------------------
(***************************************************************************)
(* What core/carver.c does with the sectors of a partition: the chunks it  *)
(* reads, the sectors of each it examines, and the in_file state machine   *)
(* that turns headers, footers and gaps into carved files.  Positions and  *)
(* sizes are in sectors of the partition, sizes rounded up (a footer may   *)
(* end inside its sector), for the sector-aligned mode (deep_scan FALSE).  *)
(* The types that carver_check_footer reads a length for from the header   *)
(* (bmp, riff, zip's comment, flv, wdp) are not modelled.                  *)
(***************************************************************************)
EXTENDS Integers, Sequences, SequencesExt, FiniteSetsExt

CONSTANTS
  Size,         \* sectors of the partition
  Chunk,        \* CARVER_CHUNK_SIZE
  Overlap,      \* CARVER_CHUNK_OVERLAP
  SameTypeGap,  \* CARVER_CHUNK_SIZE / 8
  MaxGap,       \* CARVER_MAX_GAP
  Hints,        \* the file types whose signatures are enabled
  MaxFileSize,  \* max_filesize of each type, 0 when the type has none
  Trailer       \* how carver_check_footer looks for the end of each type

ASSUME GeometryAssumption ==
  /\ Size \in Nat \ {0} /\ Chunk \in Nat \ {0} /\ Overlap \in 1 .. Chunk - 1
  /\ SameTypeGap \in Nat /\ MaxGap \in Nat \ {0}

ASSUME TypesAssumption ==
  /\ "-" \notin Hints
  /\ MaxFileSize \in [Hints -> Nat]
  /\ Trailer \in [Hints -> {"none", "first", "last", "single"}]

Sectors == 0 .. Size - 1
NoHint == "-"

\* A sector of the disk: constant 00 or FF bytes, or data, which may start with the header
\* of one type and hold the footer of one (carver_sector_constant, carver_check_header).
\* short: the footer ends fewer than CARVER_MIN_SIZE bytes into the sector.
Sector(kind, h, footer, short) == [kind |-> kind, hint |-> h, footer |-> footer, short |-> short]
Empty == Sector("empty", NoHint, NoHint, FALSE)
Data == Sector("data", NoHint, NoHint, FALSE)
Header(h) == Sector("header", h, NoHint, FALSE)
Footer(h) == Sector("data", NoHint, h, FALSE)
SectorType ==
  {s \in [kind : {"empty", "data", "header"}, hint : Hints \cup {NoHint},
          footer : Hints \cup {NoHint}, short : BOOLEAN] : s.kind = "header" <=> s.hint # NoHint}

-----------------------------------------------------------------------------
(* The chunks. *)

ChunkSize(pos) == Min({Chunk, Size - pos})
ReadFrom(pos) == IF pos = 0 THEN 0 ELSE pos - Overlap
BufferEnd(pos) == ReadFrom(pos) + ChunkSize(pos)

\* i runs from skip_sectors, which is sector pos, to the end of the buffer.
Examined(pos) == pos .. BufferEnd(pos) - 1

ChunkStarts == {pos \in Sectors : pos % Chunk = 0}

-----------------------------------------------------------------------------
(* The file being carved: in_file, in_file_start, in_file_hint, in_file_footer_at. *)

NoFile == [start |-> 0, hint |-> NoHint, footer |-> 0]

Gap(h) == IF MaxFileSize[h] = 0 THEN MaxGap ELSE MaxFileSize[h]

\* carver_check_footer on the buffer from sector i to its end e: one past the footer's
\* sector, 0 when there is none.  "single" is JPEG: a second header hides the footer.
FooterAt(d, i, e, h) ==
  LET marks == {f \in i .. e - 1 : d[f].footer = h}
      again == \E r, s \in i .. e - 1 : r # s /\ d[r].hint = h /\ d[s].hint = h
  IN CASE marks = {} \/ Trailer[h] = "none"  -> 0
       [] marks # {} /\ Trailer[h] = "first" -> Min(marks) + 1
       [] marks # {} /\ Trailer[h] = "last"  -> Max(marks) + 1
       [] marks # {} /\ Trailer[h] = "single" -> IF again THEN 0 ELSE Max(marks) + 1

\* carver_add_entry for the file being carved, which its callers close in any case.  What
\* a footer in its first sector leaves fewer than CARVER_MIN_SIZE bytes of is no entry.
Carve(st, size, tiny) ==
  IF tiny THEN st.found
  ELSE Append(st.found, [start |-> st.file.start, size |-> size, hint |-> st.file.hint])

\* The footer of the file being carved is in its header's sector and ends early.
EndsAtOnce(d, f) == f.footer = f.start + 1 /\ d[f.start].short

\* A sector without a header: the file ends at its footer, or when it outgrows its gap.
AtPlain(d, st, reach) ==
  LET f == st.file
  IN CASE f.hint = NoHint -> st
       [] f.hint # NoHint /\ f.footer > 0 /\ reach >= f.footer ->
            [file |-> NoFile, found |-> Carve(st, f.footer - f.start, EndsAtOnce(d, f))]
       [] f.hint # NoHint /\ ~(f.footer > 0 /\ reach >= f.footer) ->
            IF reach - f.start > Gap(f.hint)
            THEN [file |-> NoFile, found |-> Carve(st, Gap(f.hint), FALSE)] ELSE st

\* A header inside a file of the same type, close to its start or before its footer, is
\* taken for an embedded one.
Embedded(f, i, h) ==
  /\ f.hint = h
  /\ IF f.footer > 0 THEN i < f.footer ELSE i - f.start < SameTypeGap

\* Mutant: the footer wins whatever starts before it.
SizeToFooter(d, f, i, e) == IF f.footer > 0 THEN f.footer - f.start ELSE i - f.start

\* Where the file ends when another one starts at i: carver_check_footer looks from i on,
\* and its result is compared with a length counted from the file's own start.
SizeBefore(d, f, i, e) ==
  LET span == Min({i - f.start, Gap(f.hint)})
      ahead == FooterAt(d, i, e, f.hint) - i
  IN CASE f.footer > 0 -> Min({f.footer - f.start, span})
       [] f.footer = 0 /\ FooterAt(d, i, e, f.hint) > 0 -> Min({ahead, span})
       [] f.footer = 0 /\ FooterAt(d, i, e, f.hint) = 0 -> span

\* ... and whether that leaves fewer than CARVER_MIN_SIZE bytes.
TinyBefore(d, f, i, e) ==
  IF f.footer > 0 THEN EndsAtOnce(d, f)
  ELSE FooterAt(d, i, e, f.hint) = i + 1 /\ d[i].short

AtHeader(d, st, i, e, h) ==
  IF Embedded(st.file, i, h) THEN st
  ELSE [file |-> [start |-> i, hint |-> h, footer |-> FooterAt(d, i, e, h)],
        found |-> IF st.file.hint = NoHint THEN st.found
                  ELSE Carve(st, SizeBefore(d, st.file, i, e), TinyBefore(d, st.file, i, e))]

ScanSector(d, st, i, e) ==
  CASE d[i].kind = "empty" -> AtPlain(d, st, i + 1)
    [] d[i].kind = "data" -> AtPlain(d, st, i)
    [] d[i].kind = "header" -> AtHeader(d, st, i, e, d[i].hint)

\* Mutant: the open file is forgotten at the start of every chunk.
ScanChunkAlone(d, file, pos) ==
  LET before[i \in 0 .. Size] ==
        IF i <= pos THEN [file |-> NoFile, found |-> <<>>]
        ELSE ScanSector(d, before[i - 1], i - 1, BufferEnd(pos))
  IN before[BufferEnd(pos)]

\* One turn of the chunk loop: the file still open after it, and the files carved in it.
\* before[i] is what the loop over the sectors has when it comes to sector i.
ScanChunk(d, file, pos) ==
  LET before[i \in 0 .. Size] ==
        IF i <= pos THEN [file |-> file, found |-> <<>>]
        ELSE ScanSector(d, before[i - 1], i - 1, BufferEnd(pos))
  IN before[BufferEnd(pos)]

\* After the loop: a file still open runs to the end of the partition.
Flush(d, file) ==
  LET toEnd == Size - file.start
      cut == IF file.footer > 0 THEN Min({file.footer - file.start, toEnd}) ELSE toEnd
      size == IF MaxFileSize[file.hint] > 0 THEN Min({cut, MaxFileSize[file.hint]}) ELSE cut
  IN IF file.hint = NoHint THEN <<>>
     ELSE Carve([file |-> file, found |-> <<>>], size, EndsAtOnce(d, file))
=============================================================================
