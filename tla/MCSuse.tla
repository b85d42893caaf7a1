-------------------------------- MODULE MCSuse --------------------------------
EXTENDS SuseScheduler

\* suse.config: SEM_IDS=[A,B], SEM_INIT=[0,1], SEM_MAX=[1,5].
SuseConfig == << [id |-> "A", value |-> 0, max |-> 1], [id |-> "B", value |-> 1, max |-> 5] >>
OneSemaphore == SubSeq(SuseConfig, 1, 1)
===============================================================================
