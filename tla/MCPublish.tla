----------------------------- MODULE MCPublish -----------------------------
(* Publish with metadata files that each lack or add one thing.               *)
EXTENDS Publish

Metadata(name, version) ==
  [parses |-> TRUE, name |-> name, version |-> version, nullMaintainer |-> FALSE,
   description |-> <<"text">>, annotations |-> <<>>]

Plain == Metadata(<<"ext">>, <<"1.0.0">>)

MCMetadatas ==
  { Plain,
    Metadata(<<>>, <<"1.0.0">>),
    Metadata(<<"ext", "!">>, <<"1.0.0">>),
    [Metadata(<<"ext">>, <<>>) EXCEPT !.annotations = [version |-> <<"user">>]],
    [Metadata(<<"ext">>, <<"1.0.0", "+", "b1">>) EXCEPT
       !.annotations = [title |-> <<"user">>, description |-> <<"user">>]],
    Metadata(<<"ext">>, <<"1.0.0", "_", "b1">>),
    [Plain EXCEPT !.nullMaintainer = TRUE],
    [Plain EXCEPT !.parses = FALSE] }
=============================================================================
