---------------------------- MODULE OrtIoConfig ----------------------------
(***************************************************************************)
(* The tensor names a model pack gives its ONNX graphs (localmt-engine-    *)
(* ort): the `ort_io` object inside the pack's config.json, which may be   *)
(* missing from a file that is otherwise in order.                         *)
(*                                                                         *)
(* A tensor name is a record of what trim() leaves and of the whole; what  *)
(* it leaves is None when nothing is left.                                 *)
(***************************************************************************)
EXTENDS CoreTypes

EncoderFields == <<"input_ids", "attention_mask", "last_hidden_state">>
DecoderFields == <<"input_ids", "encoder_attention_mask", "encoder_hidden_states", "logits">>

(* Each name is trimmed and must not be empty; the error names its field.  *)
NormalizedNames(names, fields) ==
  [field \in {fields[i] : i \in DOMAIN fields} |-> names[field].trimmed]
TensorNameChecks(object, names, fields) ==
  [i \in DOMAIN fields |->
     <<names[fields[i]].trimmed = None, [kind |-> "EmptyTensorName",
                                         field |-> <<object, fields[i]>>]>>]

EncoderIoNames(names) == NormalizedNames(names, EncoderFields)
DecoderIoNames(names) == NormalizedNames(names, DecoderFields)

----------------------------------------------------------------------------
IoConfigOf(raw) ==
  [encoder |-> EncoderIoNames(raw.encoder), decoder |-> DecoderIoNames(raw.decoder),
   decoder_with_past |-> IF raw.decoder_with_past = None THEN None
                         ELSE DecoderIoNames(raw.decoder_with_past)]

RawIoChecks(raw) ==
  TensorNameChecks("encoder", raw.encoder, EncoderFields)
  \o TensorNameChecks("decoder", raw.decoder, DecoderFields)
  \o IF raw.decoder_with_past = None THEN <<>>
     ELSE TensorNameChecks("decoder_with_past", raw.decoder_with_past, DecoderFields)

(* The envelope: only its `ort_io` object is read.                         *)
TryIntoIoConfig(envelope) ==
  IF envelope.ort_io = None THEN Err([kind |-> "MissingOrtIoConfig"])
  ELSE Checked(RawIoChecks(envelope.ort_io), IoConfigOf(envelope.ort_io))

IoFromJsonFile(file) == IF file.ok THEN TryIntoIoConfig(file.value) ELSE file
=============================================================================
