---------------------------- MODULE MCCrawlerStart ----------------------------
(* CrawlerStart for TLC: Fulu at epoch 1, a fork after it at 3, and entries of *)
(* the blob schedule at 2 and 3.                                               *)
EXTENDS CrawlerStart

MCSpecKinds == {"testnet", "impostor"}
MCForkEpochs == {1, 3}
MCBlobEpochs == {2, 3}
=============================================================================
