------------------------ MODULE MCVersionResolution ------------------------
(* VersionResolution over a handful of tags that differ in kind, precedence   *)
(* and metadata.                                                              *)
EXTENDS VersionResolution

Name(kind, rank, meta) == [kind |-> kind, rank |-> rank, meta |-> meta]

MCNames ==
  { Name("strict", 0, "none"),    \* 0.0.0-0
    Name("strict", 1, "none"),    \* 1.0.0
    Name("strict", 2, "none"),    \* 2.0.0-rc.1
    Name("strict", 2, "_"),       \* 2.0.0-rc.1_b1, of the same precedence
    Name("strict", 2, "+"),       \* 2.0.0-rc.1+b1, which no registry holds
    Name("loose", 3, "none"),     \* v3
    Name("word", 0, "none"),      \* mytag
    Name("digest", 0, "none"),    \* @sha256:...
    Name("pinned", 1, "none") }   \* 1.0.0@sha256:..., whose tag nobody reads
=============================================================================
