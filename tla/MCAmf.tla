------------------------------- MODULE MCAmf -------------------------------
(* Amf for TLC: up to two elements, objects of up to two members, an empty *)
(* key, a short one and one whose length's first byte is an end mark.  The *)
(* characters of the last are such that the parser, which takes them for   *)
(* elements, meets a number, an object and in it an unknown type that ends *)
(* where the buffer does.                                                  *)
EXTENDS Amf

MCKeys == {<<>>, <<7>>,
           [i \in 1..(9 * Base) |-> IF i = 9 THEN AMF_OBJECT ELSE IF i = 29 THEN 7 ELSE 1]}
MCStrs == {<<>>, <<7>>}
MCValues == {
    amf_number(9), amf_string(<<>>),
    amf_object_set(amf_alloc(AMF_OBJECT), <<7>>, amf_string(<<>>))}
=============================================================================
