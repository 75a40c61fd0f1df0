--------------------------- MODULE MCRegistryImage ---------------------------
(* RegistryImage with the manifests that other tools may have left at the tag. *)
EXTENDS RegistryImage, TLC

CONSTANTS a, b

(* Two publishers of the same build: their wasm blobs are one blob. *)
MCWasmOf == [p \in Pushers |-> a]

MCForeign ==
  { Manifest({Blob("other", a), Blob("wasm", b)}),         \* no metadata
    Manifest({Blob("metadata", a)}),                       \* no wasm layer
    Manifest({Blob("metadata", Corrupt), Blob("wasm", a)}),
    Manifest({Blob("metadata", a), Blob("wasm", a), Blob("wasm", b)}) }  \* two layers

Actors == Permutations(Pushers) \cup Permutations(Pullers)
=============================================================================
