------------------------ MODULE MCAttachmentRestore ------------------------
(* Small instances of AttachmentRestore. *)
EXTENDS AttachmentRestore
=============================================================================
