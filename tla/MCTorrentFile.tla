---------------------------- MODULE MCTorrentFile ----------------------------
(***************************************************************************)
(* Values for model-checking TorrentFile: a torrent with every field wrong *)
(* in turn, and single-file and multi-file torrents with all combinations  *)
(* of piece length, number of hashes and lengths, at and over the widths.  *)
(***************************************************************************)
EXTENDS TorrentFile, TLC

Num(n) == <<IInt64, n>>
Str(s) == <<IString, s>>
List(s) == <<IList, s>>
Dict(d) == <<IDict, d>>

Without(d, name) == [k \in DOMAIN d \ {name} |-> d[k]]
With(d, name, v) == [k \in DOMAIN d \cup {name} |-> IF k = name THEN v ELSE d[k]]

Numbers(piece_length, hashes) ==
  [name |-> Str(1)] @@ [x \in {"piece length"} |-> Num(piece_length)]
    @@ [pieces |-> Str(20 * hashes)]

Single(piece_length, hashes, length) ==
  With(Numbers(piece_length, hashes), "length", Num(length))

Entry(length) == Dict([length |-> Num(length), path |-> List(<<Str(1)>>)])

Several(piece_length, hashes, lengths) ==
  With(Numbers(piece_length, hashes), "files", List([k \in DOMAIN lengths |-> Entry(lengths[k])]))

Top(info) == [announce |-> Str(1), info |-> Dict(info)]

PieceLengths == {-1, 0, 1, 3, 12, 13, 16, 19}
Sizes == {-1, 0, 2, 3, 7, 12, 13, 63, 64}

Good == Several(3, 2, <<2, 3>>)

BadEntries ==
  {Num(1), Dict(Without(Entry(2)[2], "length")), Dict(With(Entry(2)[2], "length", Str(1))),
   Dict(Without(Entry(2)[2], "path")), Dict(With(Entry(2)[2], "path", List(<<Num(1)>>)))}

AnnounceLists ==
  {Num(1), List(<<>>), List(<<Str(1)>>), List(<<List(<<Num(1)>>)>>),
   List(<<List(<<Str(1)>>), List(<<Str(1), Str(1)>>)>>)}

MCTorrentFiles ==
  {Num(1)}
    \cup {Dict(Without(Top(Good), f)) : f \in {"announce", "info"}}
    \cup {Dict(With(Top(Good), f, Num(1))) : f \in {"announce", "info", "comment"}}
    \cup {Dict(With(Top(Good), "announce-list", l)) : l \in AnnounceLists}
    \cup {Dict(With(Top(Good), "comment", Str(1)))}
    \cup {Dict(Top(Without(Good, f))) : f \in DOMAIN Good}
    \cup {Dict(Top(With(Good, f, Num(30)))) : f \in DOMAIN Good}
    \cup {Dict(Top(With(Good, f, Str(30)))) : f \in DOMAIN Good}
    \cup {Dict(Top(With(Good, "files", List(<<Entry(1), e>>)))) : e \in BadEntries}
    \cup {Dict(Top(With(Without(Good, "files"), "length", Str(1))))}
    \cup {Dict(Top(Single(p, h, n))) : p \in PieceLengths, h \in 0..4, n \in Sizes}
    \cup {Dict(Top(Single(p, h, n))) : p \in {1, 3}, h \in {15, 16, 17, 31}, n \in {15, 16, 17, 63}}
    \cup {Dict(Top(Several(p, h, <<m, n>>))) :
            p \in PieceLengths, h \in 0..3, m \in Sizes, n \in Sizes}

=============================================================================
