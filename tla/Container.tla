------------------------------ MODULE Container ------------------------------
(***************************************************************************)
(* The TKFD recovery archive, byte by byte (tokfold-core: format.rs, and    *)
(* the framing of Compressor::compress and decompress).  The digest is a    *)
(* parameter: any function of the document into DigestLen bytes.            *)
(***************************************************************************)
EXTENDS Varint, SequencesExt

CONSTANTS
  Magic,        \* MAGIC
  DigestLen,    \* CHECKSUM_LEN
  Digest(_)     \* sha256

ASSUME ContainerAssumption ==
  /\ Magic \in Seq(Byte) /\ Len(Magic) = 4
  /\ DigestLen \in Nat \ {0}

VERSION == 1
VersionOffset   == 4
EncoderOffset   == 5
TokenizerOffset == 6   \* two bytes
FlagsOffset     == 8   \* two bytes
LengthOffset    == 10

\* Mutant: the version byte is not written.
ArchiveWithoutVersion(d) == Magic \o <<0, 0, 0, 0, 0, 0>> \o WriteUleb(Len(d)) \o Digest(d) \o d

\* Header::encode_into and the payload, as compress puts them together: the passthrough
\* encoder, tokenizer 0, no flags, whatever encoder made the rendering.
ArchiveOf(d) == Magic \o <<VERSION, 0, 0, 0, 0, 0>> \o WriteUleb(Len(d)) \o Digest(d) \o d

----------------------------------------------------------------------------
(* Header::decode, then the checks of decompress; the first failure counts. *)

\* DecompressError
DecompressErrors ==
  {"bad_magic", "unsupported_version", "corrupt", "checksum_mismatch", "reserved_bits_set"}

Failure(error, offset) == [ok |-> FALSE, error |-> error, at |-> offset, bytes |-> <<>>]
Bytes(d) == [ok |-> TRUE, error |-> "none", at |-> 0, bytes |-> d]

\* Flags::from_bits: bits 3 to 15 are reserved.
ReservedBitsSet(low, high) == high # 0 \/ low >= 8

\* Mutant: the length field is not looked at and the digest is left to notice.
LeftToTheDigest(a, length, start) == FALSE

\* decompress: a version-1 archive this build could not have written.
BadMetadataAt(a) ==
  CASE ByteAt(a, EncoderOffset) # 0 -> EncoderOffset
    [] ByteAt(a, EncoderOffset) = 0
       /\ (ByteAt(a, TokenizerOffset) # 0 \/ ByteAt(a, TokenizerOffset + 1) # 0) -> TokenizerOffset
    [] OTHER -> FlagsOffset

HasForeignMetadata(a) == \E k \in EncoderOffset..(FlagsOffset + 1) : ByteAt(a, k) # 0

\* The length field disagrees with the bytes that follow the header.
LengthDisagrees(a, length, start) == Len(a) - start # length

Decompress(a) ==
  LET length == ReadUleb(a, LengthOffset)
      start  == length.at + DigestLen
  IN IF ~IsPrefix(Magic, a) THEN Failure("bad_magic", 0)
     ELSE IF ~Has(a, VersionOffset) THEN Failure("corrupt", VersionOffset)
     ELSE IF ByteAt(a, VersionOffset) > VERSION THEN Failure("unsupported_version", 0)
     ELSE IF ByteAt(a, VersionOffset) # VERSION THEN Failure("corrupt", VersionOffset)
     ELSE IF ~Has(a, EncoderOffset) THEN Failure("corrupt", EncoderOffset)
     ELSE IF ~Has(a, TokenizerOffset + 1) THEN Failure("corrupt", TokenizerOffset)
     ELSE IF ~Has(a, FlagsOffset + 1) THEN Failure("corrupt", FlagsOffset)
     ELSE IF ReservedBitsSet(ByteAt(a, FlagsOffset), ByteAt(a, FlagsOffset + 1))
          THEN Failure("reserved_bits_set", 0)
     ELSE IF ~length.ok THEN Failure("corrupt", length.at)
     ELSE IF Len(a) < start THEN Failure("corrupt", length.at)
     ELSE IF HasForeignMetadata(a) THEN Failure("corrupt", BadMetadataAt(a))
     ELSE IF LengthDisagrees(a, length.value, start) THEN Failure("corrupt", LengthOffset)
     ELSE LET payload == SubSeq(a, start + 1, Len(a))
          IN IF Digest(payload) # SubSeq(a, length.at + 1, start)
             THEN Failure("checksum_mismatch", 0) ELSE Bytes(payload)
=============================================================================
