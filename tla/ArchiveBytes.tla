---------------------------- MODULE ArchiveBytes ----------------------------
(***************************************************************************)
(* The bytes tokfold moves around, cut at the places the program tells      *)
(* apart.  A document is one "raw" chunk.  A recovery archive is two        *)
(* chunks: the header (TKFD magic, length, SHA-256 of the document) and the *)
(* body (the document verbatim).  Cutting the archive in two is what makes  *)
(* a half-written file, two writers over one file, and a read that races a  *)
(* rewrite visible.  A chunk carries the document it belongs to; the digest *)
(* is taken to be collision free, so a body satisfies a header exactly when *)
(* both belong to one document.                                             *)
(***************************************************************************)
EXTENDS Naturals, Sequences

CONSTANTS
  Good,        \* documents Compressor::compress accepts
  Bad,         \* documents it rejects (not JSON, too large, ...)
  TkfdNotes,   \* rejected documents whose first four bytes happen to be TKFD
  NoDoc        \* the document of a chunk that belongs to none

ASSUME DocumentsAssumption ==
  /\ Good \cap Bad = {}
  /\ TkfdNotes \subseteq Bad
  /\ NoDoc \notin Good \cup Bad

Docs == Good \cup Bad

\* What a write past the end of a file leaves in front of itself.
Hole == [kind |-> "hole", doc |-> NoDoc]

Chunk == [kind : {"raw", "head", "body", "rendering", "report"}, doc : Docs] \cup {Hole}

Raw(d)       == [kind |-> "raw",       doc |-> d]
Head_(d)     == [kind |-> "head",      doc |-> d]
Body(d)      == [kind |-> "body",      doc |-> d]
Rendering(d) == [kind |-> "rendering", doc |-> d]
Report(d)    == [kind |-> "report",    doc |-> d]

\* Compressor::compress succeeds: the bytes are one acceptable document.
Accepted(bytes) == Len(bytes) = 1 /\ bytes[1].kind = "raw" /\ bytes[1].doc \in Good

\* The archive Compressor::compress returns for the document d.
ArchiveOf(d) == <<Head_(d), Body(d)>>

\* Mutant: the digest is not compared.
DecodesByFraming(bytes) == Len(bytes) = 2 /\ bytes[1].kind = "head" /\ bytes[2].kind = "body"

\* Compressor::decompress succeeds: a header, the length it announces and no
\* more, and the payload its digest was taken of.
Decodes(bytes) ==
  /\ Len(bytes) = 2
  /\ bytes[1].kind = "head"
  /\ bytes[2] = Body(bytes[1].doc)

\* What decompress hands back: the payload, which Decodes says is a document.
Restored(bytes) == IF Len(bytes) < 2 THEN NoDoc ELSE bytes[2].doc

\* The document those bytes are about, once Accepted or Decodes holds of them.
DocOf(bytes) == bytes[1].doc

\* The first four bytes are the TKFD magic: necessary, not sufficient, for Decodes.
OpensWithMagic(bytes) ==
  /\ bytes # <<>>
  /\ \/ bytes[1].kind = "head"
     \/ bytes[1].kind = "raw" /\ bytes[1].doc \in TkfdNotes

\* write(2) of chunk c as the n-th chunk of a regular file.
PutAt(bytes, n, c) ==
  [k \in 1..(IF Len(bytes) < n THEN n ELSE Len(bytes)) |->
     IF k = n THEN c ELSE IF k <= Len(bytes) THEN bytes[k] ELSE Hole]
=============================================================================
