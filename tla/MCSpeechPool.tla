----------------------------- MODULE MCSpeechPool -----------------------------
EXTENDS SpeechPool
=============================================================================
