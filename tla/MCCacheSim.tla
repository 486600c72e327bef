---- MODULE MCCacheSim ----
EXTENDS CacheSim

====
