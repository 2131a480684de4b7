----------------------------- MODULE MCWordSave -----------------------------
(* Calls that share a destination of a package format or of .doc. *)
EXTENDS WordSave

AllFormats == {"docx", "odt", "fodt", "doc"}
Legacy == {"doc"}
=============================================================================
