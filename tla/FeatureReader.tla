--------------------------- MODULE FeatureReader ---------------------------
(***************************************************************************)
(* FeatureReader (ai/feature_reader.hpp): the index that open() builds     *)
(* over a list of files and the row locations that a query asks for.  A    *)
(* file is a record [names, groups, footer, damage] as FeatureWriter leaves *)
(* it; damage holds <<row group, column, kind>>: "lost" when the column    *)
(* does not decode, "short" when it decodes to one value less.  Columns    *)
(* are numbered as in the file: 0 entity_id, 1 timestamp_ns, 2 version, 3  *)
(* and on the features.                                                    *)
(***************************************************************************)
EXTENDS Integers, Sequences, SequencesExt, FiniteSets, FiniteSetsExt

Fail == [ok |-> FALSE, v |-> <<>>]
Ok(v) == [ok |-> TRUE, v |-> v]

ColumnNumbers(file) == 0 .. 2 + Len(file.names)

\* ParquetReader::read_column on column c of row group g.
ReadColumn(file, g, c) ==
  LET cols == file.groups[g]
      data == CASE c = 0 -> cols.eids [] c = 1 -> cols.tss [] c = 2 -> cols.vers
                [] OTHER -> cols.feats[c - 2]
  IN IF <<g, c, "lost">> \in file.damage THEN Fail
     ELSE IF <<g, c, "short">> \in file.damage THEN Ok(Front(data))
     ELSE Ok(data)

\* The columns C of a row group decode, to as many values as its entity_id column.
Decodes(file, g, C) ==
  \A c \in C : /\ ReadColumn(file, g, c).ok
               /\ ReadColumn(file, g, 0).ok
               /\ Len(ReadColumn(file, g, c).v) = Len(ReadColumn(file, g, 0).v)

-----------------------------------------------------------------------------
(* open(): the index *)

\* readers_: <<file>> for one that opens, <<>> for one that is missing or has no footer.
LoadFiles(disk, paths) ==
  [i \in 1 .. Len(paths) |-> IF paths[i] \in DOMAIN disk /\ disk[paths[i]].footer
                             THEN <<disk[paths[i]]>> ELSE <<>>]

LocationsIn(readers) ==
  UNION {UNION {{[eid |-> ReadColumn(readers[i][1], g, 0).v[j], ts |-> ReadColumn(readers[i][1], g, 1).v[j],
                  ver |-> ReadColumn(readers[i][1], g, 2).v[j], file |-> i, group |-> g, row |-> j]
                   : j \in 1 .. Len(ReadColumn(readers[i][1], g, 0).v)}
                  : g \in 1 .. Len(readers[i][1].groups)}
          : i \in {i \in DOMAIN readers : readers[i] # <<>>}}

LocationLessNoVersion(a, b) ==
  LET Key(l) == <<l.ts, l.file, l.group, l.row>>
      differ == {k \in 1 .. 4 : Key(a)[k] # Key(b)[k]}
  IN differ # {} /\ Key(a)[Min(differ)] < Key(b)[Min(differ)]

\* The order of the index: timestamp, version, then the place in the files.
LocationLess(a, b) ==
  LET Key(l) == <<l.ts, l.ver, l.file, l.group, l.row>>
      differ == {k \in 1 .. 5 : Key(a)[k] # Key(b)[k]}
  IN differ # {} /\ Key(a)[Min(differ)] < Key(b)[Min(differ)]

\* build_index(): a file that does not open is counted and left out, one whose fixed columns do
\* not decode is an error.
BuildIndex(disk, paths) ==
  LET readers == LoadFiles(disk, paths)
      loaded == {i \in DOMAIN readers : readers[i] # <<>>}
      sound == \A i \in loaded : \A g \in 1 .. Len(readers[i][1].groups) :
                 Decodes(readers[i][1], g, 0 .. 2)
      locs == LocationsIn(readers)
  IN IF paths = <<>> \/ ~sound THEN Fail
     ELSE Ok([readers |-> readers,
              index |-> [e \in {l.eid : l \in locs} |->
                           SetToSortSeq({l \in locs : l.eid = e}, LocationLess)],
              names |-> IF loaded = {} THEN <<>> ELSE readers[Min(loaded)][1].names,
              total |-> Cardinality(locs),
              failed |-> Len(paths) - Cardinality(loaded)])

-----------------------------------------------------------------------------
(* The locations that a query fetches, in this order *)

AsOf(reader, e, ts) ==
  IF e \notin DOMAIN reader.index THEN <<>>
  ELSE LET locs == reader.index[e]
           upper == Cardinality({i \in DOMAIN locs : locs[i].ts <= ts})
       IN IF upper = 0 THEN <<>> ELSE <<locs[upper]>>

History(reader, e, start, end) ==
  IF e \notin DOMAIN reader.index THEN <<>>
  ELSE SelectSeq(reader.index[e], LAMBDA l : start <= l.ts /\ l.ts <= end)

AsOfBatch(reader, es, ts) == FlattenSeq([i \in 1 .. Len(es) |-> AsOf(reader, es[i], ts)])

-----------------------------------------------------------------------------
(* Fetching a row *)

\* What ensure_cached() decodes for a location that is not cached; readers_ has its file.
DecodeGroup(reader, loc) ==
  LET file == reader.readers[loc.file][1]
      Col(c) == ReadColumn(file, loc.group, c).v
  IN IF ~Decodes(file, loc.group, ColumnNumbers(file)) THEN Fail
     ELSE Ok([file |-> loc.file, group |-> loc.group, eids |-> Col(0), tss |-> Col(1), vers |-> Col(2),
              feats |-> [i \in 1 .. Len(file.names) |-> Col(i + 2)]])

\* The first half of fetch_row(): the key columns of the cache, whoever filled it.
KeyFrom(cache, loc) ==
  IF loc.row > Len(cache.tss) \/ loc.row > Len(cache.eids) \/ loc.row > Len(cache.vers) THEN Fail
  ELSE Ok([eid |-> cache.eids[loc.row], ts |-> cache.tss[loc.row], ver |-> cache.vers[loc.row]])

\* The second half: all cached features, or those that project names, by the columns of loc's file.
ValuesFrom(reader, cache, loc, project) ==
  LET names == reader.readers[loc.file][1].names
      Place(f) == SelectInSeq(names, LAMBDA g : g = f)
      places == IF project = <<>> THEN [i \in 1 .. Len(cache.feats) |-> i]
                ELSE [i \in 1 .. Len(project) |-> Place(project[i])]
      Held(k) == k \in 1 .. Len(cache.feats) /\ loc.row <= Len(cache.feats[k])
  IN IF \E i \in DOMAIN places : ~Held(places[i]) THEN Fail
     ELSE Ok([i \in DOMAIN places |-> cache.feats[places[i]][loc.row]])
=============================================================================
