----------------------------- MODULE MCMigration -----------------------------
EXTENDS Migration

MCScripts ==
  { DeployAll, SeedVault, GoLive, RegisterAccountInfo, CreditReputation,
    DeployAuditor, RedeployReputation, DeployReputationV3, DeployTimelock,
    DeployZkKyc, DeployZkReserves, PublishReservesProof, DeployMainnet,
    DeployQuorum,
    DeployQuorumV4, DeployQuorumV5, DeployTreasuryB, DemoDeadman,
    MigrateCustody, MigrateCompliance, MigrateVaultV4, MigrateVaultV5,
    MigrateVaultV6, MigrateVaultV7, MigrateVaultV8 }

MCSeeding == {MigrateCustody, MigrateCompliance}
=============================================================================
