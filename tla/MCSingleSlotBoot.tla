-------------------------- MODULE MCSingleSlotBoot --------------------------
EXTENDS SingleSlotBoot
=============================================================================
