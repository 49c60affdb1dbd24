-------------------------- MODULE MCPreviewSocket --------------------------
EXTENDS PreviewSocket
=============================================================================
