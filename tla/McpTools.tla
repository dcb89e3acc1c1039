------------------------------ MODULE McpTools ------------------------------
(***************************************************************************)
(* The three MCP tools (tokfold-mcp: tools.rs, base64.rs, tools_call in       *)
(* server.rs) over the engine (tokfold-core: compress and decompress), and a *)
(* client that calls them with arguments of any shape, keeps the archive of  *)
(* a reply, or is given one made elsewhere, and later restores it from a     *)
(* medium that may change, lose or add bytes.                                *)
(***************************************************************************)
EXTENDS Container, Base64, FiniteSets

CONSTANTS
  Documents,     \* what is compressed or archived
  IsUtf8(_),
  Parsed(_),     \* tape::parse: "valid", or the error
  Tokens(_),     \* the estimator
  BodyOf(_, _),  \* an encoder's rendering of a document, or Declined
  Declined,
  MaxInput,      \* DEFAULT_MAX_INPUT_BYTES
  MaxMessage,    \* MAX_MESSAGE_BYTES
  Envelope,      \* bytes of a frame besides the texts of its result
  Spelled(_),    \* bytes a text takes in a frame
  MaxDamage(_)   \* bound: changes to an archive of this document on the medium

\* CompressError
CompressErrors == {"invalid_json", "input_too_large", "depth_exceeded", "not_utf8"}

ASSUME McpToolsAssumption ==
  /\ Documents \subseteq Seq(Byte)
  /\ \A d \in Documents :
       /\ Len(d) <= Top /\ MaxDamage(d) \in Nat /\ Spelled(d) \in Nat /\ Spelled(d) >= Len(d)
       /\ Parsed(d) \in {"valid", "invalid_json", "depth_exceeded"}
       /\ Digest(d) \in Seq(Byte) /\ Len(Digest(d)) = DigestLen
  /\ Octets = 2 * Group
  /\ MaxInput \in Nat /\ MaxMessage \in Nat /\ Envelope \in Nat

\* Twice a text the engine would call too large is more than a frame: 16 MiB against 32 MiB.
ASSUME CeilingsAssumption == MaxMessage < 2 * (MaxInput + 1)

----------------------------------------------------------------------------
(* A call's arguments, JSON values as far as the tools tell them apart.      *)

Of(type)        == [type |-> type]
Absent          == Of("absent")
Null            == Of("null")
String(text)    == [type |-> "string", text |-> text]
Object(members) == [type |-> "object", members |-> members]

\* Value::get: a member that is Absent is one the object does not have.
Get(value, key) == IF value.type = "object" THEN value.members[key] ELSE Absent

Names    == {"tokfold_compress", "tokfold_decompress", "tokfold_estimate"}
Profiles == {"conservative", "balanced", "aggressive"}

\* Each tool's inputSchema: the type of a property, the words it may be, and what is required.
Catalogue ==
  LET text == [properties |-> {"text", "profile"}, required |-> {"text"}]
  IN [name \in Names |->
        IF name = "tokfold_decompress"
        THEN [properties |-> {"archive"}, required |-> {"archive"}]
        ELSE text]

----------------------------------------------------------------------------
(* What a call is answered: a refusal of the call, or an outcome.            *)

Refused(about) == [ok |-> FALSE, about |-> about]

Outcome(text, structured, isError) ==
  [ok |-> TRUE, text |-> text, structured |-> structured, isError |-> isError]

\* An object of these members and of those; a client reads the first of two with one name.
Joined(these, those) ==
  [k \in DOMAIN these \cup DOMAIN those |-> IF k \in DOMAIN these THEN these[k] ELSE those[k]]

\* set_opt: members that are there only with the payload.
WithPayload(withPayload, members) == IF withPayload THEN members ELSE << >>

\* Mutant: a profile the catalogue offers is not known.
KnowsTwoProfiles(word) == word \in Profiles \ {"aggressive"}

IsProfile(word) == word \in Profiles

\* object_arguments, required_str, optional_profile: what the first of them refuses.
ArgumentsAreAnObject(arguments) == arguments.type \in {"absent", "null", "object"}
HasString(arguments, key) == Get(arguments, key).type = "string"
ProfileIsKnown(arguments) ==
  LET value == Get(arguments, "profile")
  IN \/ value.type \in {"absent", "null"}
     \/ value.type = "string" /\ IsProfile(value.text)

ProfileOf(arguments) ==
  IF HasString(arguments, "profile") THEN Get(arguments, "profile").text ELSE "balanced"

----------------------------------------------------------------------------
(* Compressor::compress                                                     *)

\* Config::builder(): the depth limit is in Parsed; the margin is that of every estimator
\* that is shipped.
DefaultConfig == [profile |-> "balanced", maxInput |-> MaxInput, minSaving |-> 0]

\* ConfigBuilder::profile, the one setter the tools use.
WithProfile(config, profile) == [config EXCEPT !.profile = profile]

EnabledEncoders(profile) == IF profile = "conservative" THEN {1} ELSE {1, 2}

EncoderName(encoder) ==
  CASE encoder = 0 -> "passthrough" [] encoder = 1 -> "minify" [] encoder = 2 -> "tabular"

\* The sentinel line, a symbol of its own here, and the body.
Framed(encoder, body) == <<2 * Group + encoder>> \o body

\* An encoder renders bytes, and the estimator counts.
ASSUME EncodersAssumption ==
  \A d \in Documents :
    /\ Tokens(d) \in Nat
    /\ \A e \in {1, 2} : BodyOf(e, d) # Declined =>
         BodyOf(e, d) \in Seq(Byte) /\ Tokens(Framed(e, BodyOf(e, d))) \in Nat

\* select, by what Selection shows of it: the best of the strict wins that clear the
\* margin, or passthrough.
Select(text, enabled, margin) ==
  LET offered  == {e \in enabled : BodyOf(e, text) # Declined}
      after(e) == Tokens(Framed(e, BodyOf(e, text)))
      wins     == {e \in offered :
                     /\ after(e) < Tokens(text)
                     /\ (Tokens(text) - after(e)) * 10000 >= Tokens(text) * margin}
      best     == CHOOSE e \in wins : \A other \in wins :
                    after(e) < after(other) \/ (after(e) = after(other) /\ e <= other)
  IN IF wins = {}
     THEN [encoder |-> 0, rendering |-> Framed(0, text), after |-> Tokens(text)]
     ELSE [encoder |-> best, rendering |-> Framed(best, BodyOf(best, text)),
           after |-> after(best)]

\* Stats: a passthrough reports the input's own size.
Stats(text, selection, margin) ==
  [bytesBefore     |-> Len(text),
   bytesAfter      |-> IF selection.encoder = 0 THEN Len(text) ELSE Len(selection.rendering),
   estTokensBefore |-> Tokens(text),
   estTokensAfter  |-> selection.after,
   encoder         |-> selection.encoder,
   minSaving       |-> margin]

Declines(error) == [ok |-> FALSE, error |-> error]

Artifact(text, selection, margin) ==
  [ok |-> TRUE, rendering |-> selection.rendering, archive |-> ArchiveOf(text),
   stats |-> Stats(text, selection, margin)]

\* The arguments of a call are a &str, so that NotUtf8 is out of its reach.
Compress(text, config) ==
  LET enabled == EnabledEncoders(config.profile)
  IN IF Len(text) > config.maxInput THEN Declines("input_too_large")
     ELSE IF Parsed(text) # "valid" THEN Declines(Parsed(text))
     ELSE Artifact(text, Select(text, enabled, config.minSaving), config.minSaving)

----------------------------------------------------------------------------
(* The tools.                                                                *)

\* summarize, and the wording of a failure: one line each, no document's bytes, their wording
\* left out.
Summary == <<-1>>
Wording == <<-2>>

\* stats_value: the ratios, which the counts determine, left out.
StatsValue(stats) ==
  Joined([k \in {"bytesBefore", "bytesAfter", "estTokensBefore", "estTokensAfter"} |-> stats[k]],
         [encoder |-> EncoderName(stats.encoder), encoderId |-> stats.encoder, tokenizerId |-> 0,
          minSavingBps |-> stats.minSaving, fidelity |-> "lossless"])

CompressedOutcome(artifact, withPayload) ==
  Outcome(IF withPayload THEN artifact.rendering ELSE Summary,
          Joined([compressed |-> TRUE, stats |-> StatsValue(artifact.stats)],
                 WithPayload(withPayload, [rendering |-> artifact.rendering,
                                           archive   |-> Encode(artifact.archive)])),
          FALSE)

\* A variant these do not know would be "unrecognized".
CompressErrorCode(error)   == IF error \in CompressErrors THEN error ELSE "unrecognized"
DecompressErrorCode(error) == IF error \in DecompressErrors THEN error ELSE "unrecognized"

\* Mutant: the content block says only why nothing was compressed.
EchoedOnce(text, code, withPayload) ==
  Outcome(Wording,
          Joined([compressed |-> FALSE, reasonCode |-> code],
                 WithPayload(withPayload, [rendering |-> text])),
          FALSE)

\* The input comes back unchanged, in both halves of the reply.
PassthroughOutcome(text, code, withPayload) ==
  Outcome(IF withPayload THEN text ELSE Wording,
          Joined([compressed |-> FALSE, reasonCode |-> code],
                 WithPayload(withPayload, [rendering |-> text])),
          FALSE)

OutcomeOf(text, result, withPayload) ==
  IF result.ok THEN CompressedOutcome(result, withPayload)
  ELSE PassthroughOutcome(text, CompressErrorCode(result.error), withPayload)

RunCompress(arguments, withPayload) ==
  LET text   == Get(arguments, "text").text
      config == WithProfile(DefaultConfig, ProfileOf(arguments))
  IN IF ~ArgumentsAreAnObject(arguments) THEN Refused("arguments")
     ELSE IF ~HasString(arguments, "text") THEN Refused("text")
     ELSE IF ~ProfileIsKnown(arguments) THEN Refused("profile")
     ELSE OutcomeOf(text, Compress(text, config), withPayload)

\* failure
Failed(code) == Outcome(Wording, [code |-> code], TRUE)

OutcomeOfBytes(restored) ==
  IF ~restored.ok THEN Failed(DecompressErrorCode(restored.error))
  ELSE IF ~IsUtf8(restored.bytes) THEN Failed("not_utf8")
  ELSE Outcome(restored.bytes, [text |-> restored.bytes], FALSE)

OutcomeOfText(decoded) ==
  IF ~decoded.ok THEN Failed("invalid_base64")
  ELSE IF decoded.octets = << >> THEN Failed("bad_magic")
  ELSE OutcomeOfBytes(Decompress(decoded.octets))

RunDecompress(arguments) ==
  IF ~ArgumentsAreAnObject(arguments) THEN Refused("arguments")
  ELSE IF ~HasString(arguments, "archive") THEN Refused("archive")
  ELSE OutcomeOfText(Decode(Get(arguments, "archive").text))

\* Mutant: the measurement is taken under the default profile.
WithoutProfile(arguments) ==
  IF arguments.type = "object"
  THEN Object([arguments.members EXCEPT !.profile = Absent]) ELSE arguments

CallEstimatingByDefault(name, arguments) ==
  CASE name = "tokfold_compress"   -> RunCompress(arguments, TRUE)
    [] name = "tokfold_estimate"   -> RunCompress(WithoutProfile(arguments), FALSE)
    [] name = "tokfold_decompress" -> RunDecompress(arguments)
    [] OTHER -> Refused("name")

Call(name, arguments) ==
  CASE name = "tokfold_compress"   -> RunCompress(arguments, TRUE)
    [] name = "tokfold_estimate"   -> RunCompress(arguments, FALSE)
    [] name = "tokfold_decompress" -> RunDecompress(arguments)
    [] OTHER -> Refused("name")

\* with_envelope: a member of the result's own would hide the server's.
WithEnvelope(result) == Joined(result, [resultType |-> "complete", _meta |-> "serverInfo"])

\* tools_call: a failure inside a tool is a result, a malformed call is an error.
ReplyTo(outcome) ==
  IF ~outcome.ok THEN outcome
  ELSE [ok     |-> TRUE,
        result |-> WithEnvelope([content           |-> outcome.text,
                                 structuredContent |-> outcome.structured,
                                 isError           |-> outcome.isError])]

ToolsCall(name, arguments) == ReplyTo(Call(name, arguments))

\* What the frame of a result takes: each text it carries is spelled out.
FrameOf(result) ==
  LET made == result.structuredContent
      Carried(key) == IF key \in DOMAIN made THEN Spelled(made[key]) ELSE 0
  IN Envelope + Spelled(result.content) + Carried("rendering") + Carried("archive")
     + Carried("text")

\* render_bounded, a call by itself: a reply too wide to frame is refused as a message, which
\* carries no text at all.
RenderBounded(reply) ==
  IF reply.ok /\ FrameOf(reply.result) > MaxMessage THEN Refused("message") ELSE reply

----------------------------------------------------------------------------
(* A client, its archive, and the medium that keeps it.                      *)

VARIABLES
  call,      \* the call being made, or NoCall
  carrier,   \* of the archive kept: "none", "file" (its bytes) or "text" (their base64)
  original,  \* what was archived
  archive,   \* what is on the medium
  damage     \* changes made to it

vars == <<call, carrier, original, archive, damage>>

NoCall == [name |-> "none", arguments |-> Absent]
Reply  == ToolsCall(call.name, call.arguments)   \* as the tool makes it
Delivered == RenderBounded(Reply)                \* as the client gets it

Others == {Absent, Null, Of("a boolean"), Of("a number"), Of("an array")}
Texts  == {String(d) : d \in {e \in Documents : IsUtf8(e)}}
Words  == {String(word) : word \in Profiles \cup {"fastest"}}
Blobs  == {String(<<>>), String(<<PAD>>)}

\* Arguments of every shape, members the tool does not declare among them.
Arguments ==
  Others \cup {String(<<>>)} \cup
  {Object([text |-> t, profile |-> p, archive |-> a]) :
     t \in Others \cup Texts, p \in Others \cup Words, a \in Others \cup Blobs}

Init ==
  /\ call = NoCall /\ carrier = "none"
  /\ original = <<>> /\ archive = <<>> /\ damage = 0

Ask ==
  /\ carrier = "none" /\ call = NoCall
  /\ \E name \in Names \cup {"another"}, arguments \in Arguments :
       call' = [name |-> name, arguments |-> arguments]
  /\ UNCHANGED <<carrier, original, archive, damage>>

\* The client keeps structuredContent.archive and drops the rest.
Keep ==
  /\ call.name = "tokfold_compress"
  /\ Delivered.ok /\ Delivered.result.structuredContent.compressed
  /\ call' = NoCall /\ carrier' = "text"
  /\ original' = Get(call.arguments, "text").text
  /\ archive' = Delivered.result.structuredContent.archive
  /\ UNCHANGED damage

\* An archive made elsewhere, over bytes of any kind.
ReceiveFile ==
  /\ carrier = "none" /\ call = NoCall
  /\ \E d \in Documents : original' = d /\ archive' = ArchiveOf(d)
  /\ carrier' = "file"
  /\ UNCHANGED <<call, damage>>

\* A client spells a file in base64, to have it restored by a call.
SpellFile ==
  /\ carrier = "file" /\ damage = 0
  /\ carrier' = "text" /\ archive' = Encode(archive)
  /\ UNCHANGED <<call, original, damage>>

\* What a place of the medium may hold.
Alphabet == IF carrier = "file" THEN Byte ELSE Symbol

\* A place reads back as another value.
Change ==
  \E k \in DOMAIN archive, b \in Alphabet :
    b # archive[k] /\ archive' = [archive EXCEPT ![k] = b]

\* The end is lost; a place is lost in the middle; one follows the end.
Cut  == \E n \in 0..(Len(archive) - 1) : archive' = SubSeq(archive, 1, n)
Lose == \E k \in DOMAIN archive : archive' = RemoveAt(archive, k)
Grow == \E b \in Alphabet : archive' = Append(archive, b)

Damage ==
  /\ carrier # "none"
  /\ damage < MaxDamage(original)
  /\ damage' = damage + 1
  /\ Change \/ Cut \/ Lose \/ Grow
  /\ UNCHANGED <<call, carrier, original>>

Next == Ask \/ Keep \/ ReceiveFile \/ SpellFile \/ Damage

Spec == Init /\ [][Next]_vars

----------------------------------------------------------------------------
(* Properties.                                                               *)

\* The tool's answer to the text on the medium, as the tool makes it: the limit on a frame
\* is not a matter of the archive.
Restored ==
  ToolsCall("tokfold_decompress",
            Object([text |-> Absent, profile |-> Absent, archive |-> String(archive)]))

\* What both halves of a result say.
Says(text, structured) ==
  /\ Restored.ok /\ ~Restored.result.isError
  /\ Restored.result.content = text /\ Restored.result.structuredContent = structured

FailsWith(code) ==
  Restored.ok /\ Restored.result.isError /\ Restored.result.structuredContent.code = code

\* What was archived comes back, byte for byte, as a file and through the tool, in both
\* halves of its reply; bytes that are not UTF-8 are refused as such and nothing else.
\* (compress, decompress, encode, decode, run_decompress)
ComesBack ==
  damage = 0 =>
    /\ carrier = "file" => Decompress(archive) = Bytes(original)
    /\ carrier = "text" =>
         IF IsUtf8(original) THEN Says(original, [text |-> original])
         ELSE FailsWith("not_utf8")

\* "Every header byte is load-bearing", and the base64 is a bijection: bytes are handed
\* back only of the archive, and of the text, this build would have written for those very
\* bytes, so nothing in a damaged one is ignored.  (decompress, decode)
NothingIsIgnored ==
  /\ carrier = "file" /\ Decompress(archive).ok =>
       archive = ArchiveOf(Decompress(archive).bytes)
  /\ carrier = "text" /\ ~Restored.result.isError =>
       archive = Encode(ArchiveOf(Restored.result.structuredContent.text))

\* One number, one field: a length field that is accepted, whatever became of its bytes,
\* is the very field written for that number, so no two archives differ in their length
\* field alone; every field that is written is accepted, the largest too, and a refusal
\* names a byte of the field or the one after it.  (write_uleb128, read_uleb128)
OneFieldPerNumber ==
  LET r == ReadUleb(archive, LengthOffset)
      field == SubSeq(archive, LengthOffset + 1, Len(archive))
  IN carrier = "file" /\ Len(archive) >= LengthOffset =>
       /\ r.ok => r.value <= Top /\ IsPrefix(WriteUleb(r.value), field)
       /\ (\E v \in 0..Top : IsPrefix(WriteUleb(v), field)) => r.ok
       /\ r.at \in LengthOffset..(LengthOffset + MaxGroups) /\ r.at <= Len(archive)

\* What a truncated archive of so many bytes is refused for.
Framing(length) == IF length < Len(Magic) THEN "bad_magic" ELSE "corrupt"

\* A truncated archive is bad framing and never bad content: the digest of a shorter
\* payload is never consulted, and the offset named is one of a field the file still
\* reaches or just fails to reach.  In base64 it is bad text or, cut between quartets, bad
\* framing just so.  (decompress's length check; Header::decode; decode)
TruncationIsFraming ==
  /\ carrier = "file" /\ IsStrictPrefix(archive, ArchiveOf(original)) =>
       LET r == Decompress(archive)
       IN ~r.ok /\ r.error = Framing(Len(archive)) /\ r.at <= Len(archive)
  /\ carrier = "text" /\ IsStrictPrefix(archive, Encode(ArchiveOf(original))) =>
       FailsWith(IF Len(archive) % 4 # 0 THEN "invalid_base64"
                 ELSE Framing((3 * Len(archive)) \div 4))

\* A compression is never a gate: either half of a reply that reaches the client, read alone,
\* leaves it with the input, or with a rendering whose other half restores it, that costs no
\* more by the engine's own estimate, and whose first line names the encoder the statistics
\* name.  A reply too wide for a frame is refused whole, so that "input_too_large" never
\* arrives by this tool; but a text that was declined is refused only where twice that text,
\* with what frames it, is over the limit.
\* (run_compress, compressed_outcome, passthrough_outcome, render_bounded)
NothingIsDropped ==
  LET text == Get(call.arguments, "text").text
      Restores(made) ==
        /\ Decode(made.archive).octets = ArchiveOf(text)
        /\ made.stats.estTokensAfter <= made.stats.estTokensBefore
        /\ made.stats.bytesBefore = Len(text)
        /\ made.rendering = Framed(made.stats.encoderId, Tail(made.rendering))
        /\ made.stats.encoderId = 0 => Tail(made.rendering) = text
      LeavesTheInput(result) ==
        /\ ~result.isError
        /\ result.content = result.structuredContent.rendering
        /\ IF result.structuredContent.compressed THEN Restores(result.structuredContent)
           ELSE result.structuredContent.rendering = text
      unfolded == ~Reply.result.structuredContent.compressed
  IN call.name = "tokfold_compress" /\ Reply.ok =>
       /\ Delivered.ok => LeavesTheInput(Delivered.result)
       /\ Delivered.ok /\ unfolded => Reply.result.structuredContent.reasonCode # "input_too_large"
       /\ unfolded /\ Envelope + 2 * Spelled(text) <= MaxMessage => Delivered.ok

\* "The two share one implementation": an estimate says what the compression of the same
\* arguments would, as the tool makes it, refusals of the arguments included, and holds
\* nothing of the payload.  (run_compress)
EstimateMatchesCompress ==
  LET SaysAsMuch(estimate, full) ==
        estimate = [k \in DOMAIN full \ {"rendering", "archive"} |-> full[k]]
      Matches(reply, made) ==
        /\ ~made.ok => reply = made
        /\ made.ok =>
             /\ reply.ok /\ reply.result.isError = made.result.isError
             /\ SaysAsMuch(reply.result.structuredContent, made.result.structuredContent)
  IN call.name = "tokfold_estimate" =>
       Matches(Reply, ToolsCall("tokfold_compress", call.arguments))

\* A member is what its property in the schema says.
FitsItsSchema(arguments, key) ==
  HasString(arguments, key) /\ (key = "profile" => Get(arguments, key).text \in Profiles)

\* Arguments the catalogue's schema admits.
Admitted(arguments, schema) ==
  /\ arguments.type = "object"
  /\ \A key \in {"text", "profile", "archive"} :
       \/ key \in schema.properties /\ FitsItsSchema(arguments, key)
       \/ key \notin schema.required /\ Get(arguments, key) = Absent

\* The catalogue keeps its word: no tool refuses arguments its schema admits, those that
\* lack what it requires always are, and a refusal blames something the arguments do get
\* wrong.  (catalogue, object_arguments, required_str, optional_profile)
SchemaIsKept ==
  LET schema == Catalogue[call.name]
  IN call.name \in Names =>
       /\ Admitted(call.arguments, schema) => Reply.ok
       /\ Reply.ok => \A key \in schema.required : FitsItsSchema(call.arguments, key)
       /\ ~Reply.ok =>
            \/ Reply.about = "arguments" /\ call.arguments.type # "object"
            \/ Reply.about \in schema.properties /\ ~FitsItsSchema(call.arguments, Reply.about)
=============================================================================
