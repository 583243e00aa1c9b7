------------------------------- MODULE Codecs -------------------------------
(***************************************************************************)
(* One tile or HDU through a codec and back: encode_tile_from_bytes and    *)
(* decode_tile_to_bytes (zimage/mod.rs) for the integer codecs, and        *)
(* add_checksum and verify_checksum for the checksums.  A behaviour takes  *)
(* one job, encodes it and decodes what it wrote.                          *)
(***************************************************************************)
EXTENDS Hcompress, Plio, Checksum

CONSTANTS
    RiceTiles,       \* sequences of pixels
    PlioTiles,       \* sequences of non-negative pixels
    HcompressTiles,  \* records nx, ny, pixels
    Hdus             \* records before, after, chunks

VARIABLES
    job,      \* what is encoded: [codec, data]
    stream,   \* the code, once written
    output    \* what was read back, once read

vars == <<job, stream, output>>

NotYet == [none |-> TRUE]

Jobs ==
    [codec : {"RICE_1"}, data : RiceTiles]
    \cup [codec : {"PLIO_1"}, data : PlioTiles]
    \cup [codec : {"HCOMPRESS_1"}, data : HcompressTiles]
    \cup [codec : {"CHECKSUM"}, data : Hdus]

Init == job \in Jobs /\ stream = NotYet /\ output = NotYet

EncodeTile ==
    /\ job.codec # "CHECKSUM" /\ stream = NotYet
    /\ stream' = [code |->
           CASE job.codec = "RICE_1" -> EncodeRice(job.data)
             [] job.codec = "PLIO_1" -> EncodePlio(job.data)
             [] job.codec = "HCOMPRESS_1" ->
                    EncodeHcompress(job.data.pixels, job.data.nx, job.data.ny)]
    /\ UNCHANGED <<job, output>>

DecodeTile ==
    /\ job.codec # "CHECKSUM" /\ stream # NotYet /\ output = NotYet
    /\ output' = [data |->
           CASE job.codec = "RICE_1" -> DecodeRice(stream.code, Len(job.data))
             [] job.codec = "PLIO_1" -> DecodePlio(stream.code, Len(job.data))
             [] job.codec = "HCOMPRESS_1" ->
                    DecodeHcompress(stream.code, job.data.nx, job.data.ny)]
    /\ UNCHANGED <<job, stream>>

WriteChecksum ==
    /\ job.codec = "CHECKSUM" /\ stream = NotYet
    /\ stream' = [code |-> AddChecksum(job.data)]
    /\ UNCHANGED <<job, output>>

ReadChecksum ==
    /\ job.codec = "CHECKSUM" /\ stream # NotYet /\ output = NotYet
    /\ output' = [data |-> VerifyChecksum(job.data, stream.code.chars)]
    /\ UNCHANGED <<job, stream>>

Next == EncodeTile \/ DecodeTile \/ WriteChecksum \/ ReadChecksum

Spec == Init /\ [][Next]_vars

ReadBack(codec) == job.codec = codec /\ output # NotYet

(***************************************************************************)
(* RICE_1 gives back every tile: whatever widths the blocks choose, the    *)
(* differences that wrap included (encode_rice, decode_rice).              *)
(***************************************************************************)
RiceLossless == ReadBack("RICE_1") => output.data = job.data

(***************************************************************************)
(* PLIO_1 gives back every tile of non-negative pixels (encode_plio_i32,   *)
(* decode_plio).                                                           *)
(***************************************************************************)
PlioLossless == ReadBack("PLIO_1") => output.data = job.data

(***************************************************************************)
(* HCOMPRESS_1 with scale 0 gives back every tile: the H-transform can be  *)
(* undone whatever it rounded, and both forms of a bit plane are read as   *)
(* they were written (encode_hcompress, decode_hcompress).                 *)
(***************************************************************************)
HcompressLossless == ReadBack("HCOMPRESS_1") => output.data = job.data.pixels

\* What the two sums of an HDU should be.
SumsHold ==
    /\ stream # NotYet =>
        /\ stream.code.datasum = OnesSum(FlattenSeq(job.data.chunks))
        /\ OnesSum(HeaderBytes(job.data, stream.code.chars)
                    \o FlattenSeq(job.data.chunks)) = <<HalfWord - 1, HalfWord - 1>>
        /\ Range(stream.code.chars) \cap Exclude = {}
    /\ output # NotYet => output.data = <<HalfWord - 1, HalfWord - 1>>

(***************************************************************************)
(* However the data section is cut into chunks, inside words too, as long  *)
(* as no chunk adds more to a half of the sum than a u32 holds: DATASUM is *)
(* the ones' complement sum of its words, and after add_checksum the words *)
(* of the whole HDU, header and data, add up to all ones, which is what    *)
(* verify_checksum computes and any other reader will.                     *)
(***************************************************************************)
ChecksumHolds ==
    job.codec = "CHECKSUM" /\ InWidth(job.data.chunks) => SumsHold

(***************************************************************************)
(* The same without the proviso: "summing 16-bit halves separately means   *)
(* many additions fit in u32 without overflow" (checksum.rs:35).  A 1 MiB  *)
(* chunk of stream_data_section_checksum is more than fits.                *)
(***************************************************************************)
ChecksumAlways == job.codec = "CHECKSUM" => SumsHold
=============================================================================
