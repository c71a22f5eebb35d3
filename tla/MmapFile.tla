------------------------------ MODULE MmapFile ------------------------------
(***************************************************************************)
(* PosixMmapFile of util/env_posix.cc: a file written through a mapped     *)
(* region of it.  The file is one record, and an operation a function of   *)
(* it: cells is the file as every process sees it, disk what a machine     *)
(* crash is sure to leave, and the offsets are those of base_, dst_,       *)
(* limit_ and last_sync_ in the file (dst = limit = offset: not mapped).   *)
(***************************************************************************)
EXTENDS Integers, Sequences, FiniteSets, SequencesExt

CONSTANTS
  PageSize,     \* page_size_, in cells
  MapSize,      \* the first map_size_
  MaxMapSize    \* where map_size_ stops growing

ASSUME MapAssumption ==
  /\ {PageSize, MapSize, MaxMapSize} \subseteq Nat \ {0}
  /\ MapSize % PageSize = 0 /\ MapSize <= MaxMapSize

(* A cell is one byte, or one field of a header; Zero is what ftruncate    *)
(* fills the file with.                                                    *)
Zero == <<0, <<>>>>
Zeros(n) == [i \in 1 .. n |-> Zero]

NewFile == [cells |-> <<>>, disk |-> <<>>, offset |-> 0, dst |-> 0, limit |-> 0,
            last_sync |-> 0, pending_sync |-> FALSE, map_size |-> MapSize]

IsMapped(f) == f.limit > f.offset

(* Mutant of UnmapCurrentRegion: what was not synced is forgotten.         *)
UnmapForgets(f) ==
  IF ~IsMapped(f) THEN f
  ELSE [f EXCEPT !.offset = f.limit, !.dst = f.limit, !.last_sync = f.limit,
                 !.map_size = IF @ < MaxMapSize THEN 2 * @ ELSE @]

UnmapCurrentRegion(f) ==
  IF ~IsMapped(f) THEN f
  ELSE [f EXCEPT !.pending_sync = @ \/ f.last_sync < f.limit,
                 !.offset = f.limit, !.dst = f.limit, !.last_sync = f.limit,
                 !.map_size = IF @ < MaxMapSize THEN 2 * @ ELSE @]

MapNewRegion(f) ==
  [f EXCEPT !.cells = @ \o Zeros(f.offset + f.map_size - Len(@)),
            !.limit = f.offset + f.map_size]

Copy(f, data) ==
  [f EXCEPT !.cells = [i \in DOMAIN @ |-> IF i \in f.dst + 1 .. f.dst + Len(data)
                                          THEN data[i - f.dst] ELSE @[i]],
            !.dst = @ + Len(data)]

(* AppendTo copies up to the end of the region and maps the next one, until  *)
(* all is copied or, when fails is set, the first time a region is needed. *)
RECURSIVE AppendTo(_, _, _)
AppendTo(f, data, fails) ==
  LET n == IF Len(data) <= f.limit - f.dst THEN Len(data) ELSE f.limit - f.dst
      g == Copy(f, SubSeq(data, 1, n))
  IN  IF n = Len(data) THEN [file |-> g, ok |-> TRUE]
      ELSE IF fails THEN [file |-> UnmapCurrentRegion(g), ok |-> FALSE]
      ELSE AppendTo(MapNewRegion(UnmapCurrentRegion(g)),
                    SubSeq(data, n + 1, Len(data)), fails)

(* Close trims the file to what was written.                               *)
Close(f) ==
  [UnmapCurrentRegion(f) EXCEPT
     !.cells = SubSeq(@, 1, IF f.limit > f.dst THEN f.dst ELSE Len(@))]

TruncateToPageBoundary(n) == n - (n % PageSize)

(* What Sync has written when it succeeds: with pending_sync_ all that is  *)
(* unmapped, then the pages from last_sync_ to dst_.                       *)
SyncedCells(f) ==
  (IF f.pending_sync THEN 1 .. f.offset ELSE {})
    \cup (IF f.dst = f.last_sync THEN {}
          ELSE TruncateToPageBoundary(f.last_sync) + 1
                 .. TruncateToPageBoundary(f.dst - 1) + PageSize)

Sync(f) ==
  [f EXCEPT !.pending_sync = FALSE, !.last_sync = f.dst,
            !.disk = [i \in DOMAIN f.cells |->
                        IF i \in SyncedCells(f) THEN f.cells[i]
                        ELSE IF i \in DOMAIN @ THEN @[i] ELSE Zero]]

(* fdatasync or msync fails: the marks are moved all the same.             *)
SyncFails(f) == [f EXCEPT !.pending_sync = FALSE, !.last_sync = f.dst]

(* What a crash of the machine may leave: the file is as long as it was    *)
(* at the last sync or as it is now, and each page holds what was synced   *)
(* or what it held when the system last wrote it back.                     *)
MachineCrashImages(f) ==
  LET pages == 0 .. (Len(f.cells) - 1) \div PageSize
      start(p) == p * PageSize
      synced(i) == IF i \in DOMAIN f.disk THEN f.disk[i] ELSE Zero
      image(kept) == [i \in DOMAIN f.cells |->
                        LET p == (i - 1) \div PageSize
                        IN  IF i <= start(p) + kept[p] THEN f.cells[i] ELSE synced(i)]
      all == {image(kept) : kept \in [pages -> {0, PageSize \div 2, PageSize}]}
  IN  IF f.cells = <<>> THEN {<<>>}
      ELSE all \cup {SubSeq(i, 1, Len(f.disk)) : i \in all}
=============================================================================
