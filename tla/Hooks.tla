-------------------------------- MODULE Hooks --------------------------------
(***************************************************************************)
(* The query and mutation hooks: which key a query is cached under, what   *)
(* it reads and whether it polls; what a mutation asks of the server and   *)
(* which keys its onSuccess invalidates. In a key "id" stands for an       *)
(* identifier and "p" for a page, filter or period; the other words are    *)
(* the code's.                                                             *)
(*                                                                         *)
(* A hook with several queries or mutations has a field for each.          *)
(***************************************************************************)
EXTENDS Services

\* admin/hooks/useActivity.ts
UseActivity ==
    [ useActivityLogs |-> Polled(<<"admin", "activity", "logs", "p", "p", "p">>,
                                 ActivityService.getActivityLogs),
      useActivityStats |-> Polled(<<"admin", "activity", "stats">>,
                                  ActivityService.getActivityStats),
      useUserLoginHistory |-> Query(<<"admin", "activity", "user", "id", "login-history">>,
                                    ActivityService.getUserLoginHistory),
      useSecurityActivity |-> Polled(<<"admin", "activity", "security">>,
                                     ActivityService.getSecurityActivity) ]

\* admin/hooks/useAudit.ts
UseAudit ==
    [ useAuditLogs |-> Query(<<"audit-logs", "p", "p", "p">>, AuditService.getAuditLogs),
      useUserAuditLogs |-> Query(<<"audit-logs", "user", "id", "p", "p">>,
                                 AuditService.getUserAuditLogs),
      useMyAuditLogs |-> Query(<<"audit-logs", "me", "p", "p">>,
                               AuditService.getMyAuditLogs) ]

\* admin/hooks/useMaintenance.ts
UseMaintenance ==
    [ useMaintenanceStats |-> Polled(<<"admin", "maintenance", "stats">>,
                                     MaintenanceService.getMaintenanceStats),
      useBackupHistory |-> Query(<<"admin", "maintenance", "backup", "history">>,
                                 MaintenanceService.getBackupHistory),
      useCreateBackup |-> Mutation("useCreateBackup", MaintenanceService.createBackup,
                                   { <<"admin", "maintenance", "backup">>,
                                     <<"admin", "maintenance", "stats">> }),
      useRestoreBackup |-> Mutation("useRestoreBackup", MaintenanceService.restoreBackup,
                                    { <<"admin", "maintenance", "backup">>,
                                      <<"admin", "maintenance", "stats">> }),
      useDownloadBackup |-> Mutation("useDownloadBackup", MaintenanceService.downloadBackup,
                                     {}),
      useDeleteBackup |-> Mutation("useDeleteBackup", MaintenanceService.deleteBackup,
                                   { <<"admin", "maintenance", "backup">>,
                                     <<"admin", "maintenance", "stats">> }),
      useCacheStats |-> Polled(<<"admin", "maintenance", "cache", "stats">>,
                               MaintenanceService.getCacheStats),
      useClearAllCache |-> Mutation("useClearAllCache", MaintenanceService.clearAllCache,
                                    {<<"admin", "maintenance", "cache">>}),
      useClearCacheByPattern |-> Mutation("useClearCacheByPattern",
                                          MaintenanceService.clearCacheByPattern,
                                          {<<"admin", "maintenance", "cache">>}) ]

UseMaintenance2 ==
    [ useWarmCache |-> Mutation("useWarmCache", MaintenanceService.warmCache,
                                {<<"admin", "maintenance", "cache">>}),
      useCleanupStats |-> Query(<<"admin", "maintenance", "cleanup", "stats">>,
                                MaintenanceServiceData.getCleanupStats),
      usePreviewCleanup |-> Mutation("usePreviewCleanup",
                                     MaintenanceServiceData.previewCleanup, {}),
      useRunCleanup |-> Mutation("useRunCleanup", MaintenanceServiceData.runCleanup,
                                 { <<"admin", "maintenance", "cleanup">>,
                                   <<"admin", "maintenance", "stats">> }),
      useMigrations |-> Query(<<"admin", "maintenance", "migrations">>,
                              MaintenanceServiceData.getMigrations),
      useCurrentMigration |-> Query(<<"admin", "maintenance", "migrations", "current">>,
                                    MaintenanceServiceData.getCurrentMigration),
      useUpgradeMigrations |-> Mutation("useUpgradeMigrations",
                                        MaintenanceServiceData.upgradeMigrations,
                                        { <<"admin", "maintenance", "migrations">>,
                                          <<"admin", "maintenance", "stats">> }),
      useDowngradeMigrations |-> Mutation("useDowngradeMigrations",
                                          MaintenanceServiceData.downgradeMigrations,
                                          { <<"admin", "maintenance", "migrations">>,
                                            <<"admin", "maintenance", "stats">> }) ]

\* admin/hooks/useReports.ts
AdminUseReports ==
    [ useSystemReport |-> Query(<<"admin", "reports", "system", "p">>,
                                AdminReportService.getSystemReport),
      useUserReport |-> Query(<<"admin", "reports", "users", "p">>,
                              AdminReportService.getUserReport),
      useActivityReport |-> Query(<<"admin", "reports", "activity", "p">>,
                                  AdminReportService.getActivityReport),
      useSecurityReport |-> Query(<<"admin", "reports", "security", "p">>,
                                  AdminReportService.getSecurityReport),
      usePerformanceReport |-> Query(<<"admin", "reports", "performance", "p">>,
                                     AdminReportService.getPerformanceReport),
      useExportReport |-> Mutation("useExportReport", AdminReportService.exportReport, {}),
      useExportReportPDF |-> Mutation("useExportReportPDF", Missing, {}) ]

\* admin/hooks/useRoles.ts
UseRoles ==
    [ useRoles |-> Query(<<"roles", "p", "p", "p">>, RoleService.getRoles),
      useRole |-> Query(<<"roles", "id">>, RoleService.getRole),
      usePermissions |-> Query(<<"permissions", "p">>, SettingsApi.getPermissions),
      usePermissionsByResource |-> Query(<<"permissions", "resource", "id">>,
                                         SettingsApi.getPermissions),
      useCreateRole |-> Mutation("useCreateRole", RoleService.createRole, {<<"roles">>}),
      useUpdateRole |-> Mutation("useUpdateRole", RoleService.updateRole,
                                 {<<"roles">>, <<"roles", "id">>}),
      useDeleteRole |-> Mutation("useDeleteRole", RoleService.deleteRole, {<<"roles">>}) ]

\* admin/hooks/useSettings.ts
AdminUseSettings ==
    [ useSettingsByCategory |-> Query(<<"settings", "category", "category">>,
                                      AdminSettingsServiceByKey.getSettingsByCategory),
      useSetting |-> Query(<<"settings", "key", "name">>,
                           AdminSettingsServiceByKey.getSetting),
      useUpdateSetting |-> Mutation("useUpdateSetting",
                                    AdminSettingsServiceByKey.updateSetting,
                                    { <<"settings", "key", "name">>,
                                      <<"settings", "category", "category">>,
                                      <<"settings">> }),
      useResetSetting |-> Mutation("useResetSetting",
                                   AdminSettingsServiceByKey.resetSetting,
                                   { <<"settings", "key", "name">>,
                                     <<"settings", "category", "category">>,
                                     <<"settings">> }),
      useBatchUpdateSettings |-> Mutation("useBatchUpdateSettings",
                                          AdminSettingsServiceByKey.updateSetting,
                                          {<<"settings">>}) ]

\* admin/hooks/useSupport.ts
UseSupport ==
    [ useSupportStats |-> Polled(<<"admin", "support", "stats">>,
                                 SupportService.getSupportStats),
      useSupportGroups |-> Query(<<"admin", "support", "groups", "p">>,
                                 SupportService.getSupportGroups),
      useSupportGroup |-> Query(<<"admin", "support", "groups", "id">>,
                                SupportService.getSupportGroup),
      useCreateSupportGroup |-> Mutation("useCreateSupportGroup",
                                         SupportService.createSupportGroup,
                                         { <<"admin", "support", "groups">>,
                                           <<"admin", "support", "stats">> }),
      useUpdateSupportGroup |-> Mutation("useUpdateSupportGroup",
                                         SupportService.updateSupportGroup,
                                         { <<"admin", "support", "groups">>,
                                           <<"admin", "support", "groups", "id">>,
                                           <<"admin", "support", "stats">> }),
      useDeleteSupportGroup |-> Mutation("useDeleteSupportGroup",
                                         SupportService.deleteSupportGroup,
                                         { <<"admin", "support", "groups">>,
                                           <<"admin", "support", "stats">> }),
      useAddGroupMember |-> Mutation("useAddGroupMember", SupportService.addGroupMember,
                                     {<<"admin", "support", "groups", "id">>}),
      useRemoveGroupMember |-> Mutation("useRemoveGroupMember",
                                        SupportService.removeGroupMember,
                                        {<<"admin", "support", "groups", "id">>}) ]

UseSupport2 ==
    [ useTicketCategories |-> Query(<<"admin", "support", "categories", "p">>,
                                    SupportServiceCategories.getTicketCategories),
      useTicketCategory |-> Query(<<"admin", "support", "categories", "id">>,
                                  SupportServiceCategories.getTicketCategory),
      useCreateTicketCategory |-> Mutation("useCreateTicketCategory",
                                           SupportServiceCategories.createTicketCategory,
                                           { <<"admin", "support", "categories">>,
                                             <<"admin", "support", "stats">> }),
      useUpdateTicketCategory |-> Mutation("useUpdateTicketCategory",
                                           SupportServiceCategories.updateTicketCategory,
                                           { <<"admin", "support", "categories">>,
                                             <<"admin", "support", "categories", "id">>,
                                             <<"admin", "support", "stats">> }),
      useDeleteTicketCategory |-> Mutation("useDeleteTicketCategory",
                                           SupportServiceCategories.deleteTicketCategory,
                                           { <<"admin", "support", "categories">>,
                                             <<"admin", "support", "stats">> }),
      useAutomationRules |-> Query(<<"admin", "support", "automation", "p", "p">>,
                                   SupportServiceAutomation.getAutomationRules),
      useAutomationRule |-> Query(<<"admin", "support", "automation", "id">>,
                                  SupportServiceAutomation.getAutomationRule),
      useCreateAutomationRule |-> Mutation("useCreateAutomationRule",
                                           SupportServiceAutomation.createAutomationRule,
                                           { <<"admin", "support", "automation">>,
                                             <<"admin", "support", "stats">> }) ]

UseSupport3 ==
    [ useUpdateAutomationRule |-> Mutation("useUpdateAutomationRule",
                                           SupportServiceAutomation.updateAutomationRule,
                                           { <<"admin", "support", "automation">>,
                                             <<"admin", "support", "automation", "id">>,
                                             <<"admin", "support", "stats">> }),
      useDeleteAutomationRule |-> Mutation("useDeleteAutomationRule",
                                           SupportServiceAutomation.deleteAutomationRule,
                                           { <<"admin", "support", "automation">>,
                                             <<"admin", "support", "stats">> }),
      useToggleAutomationRule |-> Mutation("useToggleAutomationRule",
                                           SupportServiceAutomation.toggleAutomationRule,
                                           { <<"admin", "support", "automation">>,
                                             <<"admin", "support", "automation", "id">>,
                                             <<"admin", "support", "stats">> }) ]

\* admin/hooks/useSystem.ts
UseSystem ==
    [ useSystemOverview |-> Polled(<<"admin", "system", "overview">>,
                                   SystemService.getSystemOverview),
      useSystemHealth |-> Polled(<<"admin", "system", "health">>,
                                 SystemService.getSystemHealth),
      useSystemStats |-> Polled(<<"admin", "system", "stats">>,
                                SystemService.getSystemStats),
      useDetailedHealth |-> Polled(<<"admin", "system", "detailed-health">>,
                                   SystemService.getDetailedHealth),
      useRecentActivity |-> Polled(<<"admin", "system", "recent-activity", "p">>,
                                   SystemService.getRecentActivity),
      useUsersByRole |-> Polled(<<"admin", "system", "users-by-role">>,
                                SystemService.getUsersByRole),
      usePerformanceMetrics |-> Polled(<<"admin", "system", "performance", "p">>,
                                       SystemServiceAlerts.getPerformanceMetrics),
      useSystemAlerts |-> Polled(<<"admin", "system", "alerts", "p">>,
                                 SystemServiceAlerts.getAlerts),
      useSystemLogs |-> Polled(<<"admin", "system", "logs", "p">>,
                               SystemServiceAlerts.getSystemLogs),
      useResolveAlert |-> Mutation("useResolveAlert", SystemServiceAlerts.resolveAlert,
                                   {<<"admin", "system", "alerts">>}),
      useAcknowledgeAlert |-> Mutation("useAcknowledgeAlert",
                                       SystemServiceAlerts.acknowledgeAlert,
                                       {<<"admin", "system", "alerts">>}) ]

\* admin/hooks/useUsers.ts
UseUsers ==
    [ useUsers |-> Query(<<"users", "p", "p", "p">>, UserService.getUsers),
      useUser |-> Query(<<"users", "id">>, UserService.getUser),
      useCreateUser |-> Mutation("useCreateUser", UserService.createUser, {<<"users">>}),
      useUpdateUser |-> Mutation("useUpdateUser", UserService.updateUser,
                                 {<<"users">>, <<"users", "id">>}),
      useDeleteUser |-> Mutation("useDeleteUser", UserService.deleteUser, {<<"users">>}),
      useActivateUser |-> Mutation("useActivateUser", UserService.activateUser,
                                   {<<"users">>, <<"users", "id">>}),
      useDeactivateUser |-> Mutation("useDeactivateUser", UserService.deactivateUser,
                                     {<<"users">>, <<"users", "id">>}),
      useAssignRoles |-> Mutation("useAssignRoles", UserServiceAccess.assignRoles,
                                  {<<"users">>, <<"users", "id">>}),
      useForcePasswordReset |-> Mutation("useForcePasswordReset",
                                         UserServiceAccess.forcePasswordReset,
                                         {<<"users", "id">>}),
      useUnlockAccount |-> Mutation("useUnlockAccount", UserServiceAccess.unlockAccount,
                                    {<<"users">>, <<"users", "id">>}) ]

UseUsers2 ==
    [ useUserSessions |-> Query(<<"users", "id", "sessions">>,
                                UserServiceAccess.getUserSessions),
      useRevokeSession |-> Mutation("useRevokeSession", UserServiceAccess.revokeSession,
                                    {<<"users", "id", "sessions">>}),
      useRevokeAllSessions |-> Mutation("useRevokeAllSessions",
                                        UserServiceAccess.revokeAllSessions,
                                        {<<"users", "id", "sessions">>}),
      useUserActivity |-> Query(<<"users", "id", "activity", "p", "p">>,
                                UserServiceAccess.getUserActivity),
      useUserStats |-> Query(<<"users", "id", "stats">>, UserServiceAccess.getUserStats) ]

\* auth/hooks/useAuth.ts
UseAuth ==
    [ useCurrentUser |-> Query(<<"auth", "current-user">>, AuthService.getCurrentUser),
      useLogin |-> Mutation("useLogin", AuthService.login, {}),
      useCompleteLogin2FA |-> Mutation("useCompleteLogin2FA", AuthService.completeLogin2FA,
                                       {}),
      useRegister |-> Mutation("useRegister", AuthService.register, {}),
      useLogout |-> Mutation("useLogout", AuthService.logout, {}),
      useUpdateProfile |-> Mutation("useUpdateProfile", AuthServiceAccount.updateProfile,
                                    {<<"auth", "current-user">>}),
      useChangePassword |-> Mutation("useChangePassword", AuthServiceAccount.changePassword,
                                     {}),
      useLoginHistory |-> Query(<<"auth", "login-history", "p", "p">>,
                                AuthServiceAccount.getLoginHistory) ]

\* customers/hooks/useCustomers.ts
UseCustomers ==
    [ useCustomers |-> Query(<<"customers", "p", "p", "p">>, CustomerService.getAll),
      useCustomer |-> Query(<<"customers", "id">>, CustomerService.getById),
      useCustomerStatistics |-> Query(<<"customers", "statistics">>,
                                      CustomerServiceLifecycle.getStatistics),
      useCreateCustomer |-> Mutation("useCreateCustomer", CustomerService.create,
                                     {<<"customers">>}),
      useUpdateCustomer |-> Mutation("useUpdateCustomer", CustomerService.update,
                                     {<<"customers">>}),
      useDeleteCustomer |-> Mutation("useDeleteCustomer", CustomerServiceLifecycle.delete,
                                     {<<"customers">>}),
      useActivateCustomer |-> Mutation("useActivateCustomer",
                                       CustomerServiceLifecycle.activate, {<<"customers">>}),
      useSuspendCustomer |-> Mutation("useSuspendCustomer",
                                      CustomerServiceLifecycle.suspend, {<<"customers">>}),
      useSubmitForApproval |-> Mutation("useSubmitForApproval",
                                        CustomerServiceLifecycle.submitForApproval,
                                        {<<"customers">>}),
      useApproveCustomer |-> Mutation("useApproveCustomer",
                                      CustomerServiceLifecycle.approve, {<<"customers">>}) ]

UseCustomers2 ==
    [ useRejectCustomer |-> Mutation("useRejectCustomer", CustomerServiceLifecycle.reject,
                                     {<<"customers">>}),
      useStatusHistory |-> Query(<<"customers", "id", "status-history">>,
                                 CustomerServiceLifecycle.getStatusHistory),
      useProfileCompleteness |-> Query(<<"customers", "id", "profile", "completeness">>,
                                       CustomerServiceLifecycle.getProfileCompleteness),
      useMissingFields |-> Query(<<"customers", "id", "profile", "missing-fields">>,
                                 CustomerServiceLifecycle.getMissingFields) ]

\* customers/hooks/useKYC.ts
UseKYC ==
    [ useCustomerKYCStatus |-> Query(<<"customers", "id", "kyc", "status">>,
                                     KycService.getCustomerKYCStatus),
      useKYCDocuments |-> Query(<<"customers", "id", "kyc", "documents">>,
                                KycService.getDocuments),
      useKYCDocument |-> Query(<<"customers", "id", "kyc", "documents", "id">>,
                               KycService.getDocument),
      useUploadKYCDocument |-> Mutation("useUploadKYCDocument", KycService.uploadDocument,
                                        { <<"customers", "id", "kyc">>,
                                          <<"customers", "id">> }),
      useUpdateKYCDocument |-> Mutation("useUpdateKYCDocument", KycService.updateDocument,
                                        {<<"customers", "id", "kyc">>}),
      useDeleteKYCDocument |-> Mutation("useDeleteKYCDocument", KycService.deleteDocument,
                                        { <<"customers", "id", "kyc">>,
                                          <<"customers", "id">> }),
      useVerifyKYCDocument |-> Mutation("useVerifyKYCDocument", KycService.verifyDocument,
                                        { <<"customers", "id", "kyc">>,
                                          <<"customers", "id">> }) ]

UseKYC2 ==
    [ useDownloadKYCDocument |-> Mutation("useDownloadKYCDocument",
                                          KycService.triggerDocumentDownload, {}) ]

\* dashboard/hooks/useDashboard.ts
UseDashboard ==
    [ useCustomerDashboard |-> Query(<<"dashboard", "customer", "p">>,
                                     DashboardService.getCustomerDashboard),
      useCorporateDashboard |-> Query(<<"dashboard", "corporate", "p">>,
                                      DashboardService.getCorporateDashboard) ]

\* dns/hooks/useContainers.ts
UseContainers ==
    [ useSubscriptionContainers |-> Query(<<"vps", "subscriptions", "id", "containers">>,
                                          VpsServiceSubscriptions.getSubscriptionContainers) ]

\* dns/hooks/useDNSAdmin.ts
UseDNSAdmin ==
    [ useCoreDNSStatus |-> Polled(<<"dns", "admin", "coredns", "status">>,
                                  DnsServiceAdmin.getCoreDNSStatus),
      useDNSSyncLogs |-> Query(<<"dns", "admin", "sync-logs", "p">>,
                               DnsServiceAdmin.getSyncLogs),
      useReloadCoreDNS |-> Mutation("useReloadCoreDNS", DnsServiceAdmin.reloadCoreDNS,
                                    { <<"dns", "admin", "coredns">>,
                                      <<"dns", "admin", "sync-logs">> }),
      useRegenerateCoreDNSConfig |-> Mutation("useRegenerateCoreDNSConfig",
                                              DnsServiceAdmin.regenerateCoreDNSConfig,
                                              { <<"dns", "admin", "coredns">>,
                                                <<"dns", "admin", "sync-logs">> }),
      useCreateSystemZone |-> Mutation("useCreateSystemZone",
                                       DnsServiceAdmin.createSystemZone,
                                       { <<"dns", "admin", "zones">>,
                                         <<"dns", "statistics">> }) ]

\* dns/hooks/useDNSRecords.ts
UseDNSRecords ==
    [ useDNSRecords |-> Query(<<"dns", "records", "id", "p">>, DnsServiceRecords.getRecords),
      useDNSRecord |-> Query(<<"dns", "records", "detail", "id">>,
                             DnsServiceRecords.getRecord),
      useCreateDNSRecord |-> Mutation("useCreateDNSRecord", DnsServiceRecords.createRecord,
                                      { <<"dns", "zones", "id">>,
                                        <<"dns", "records", "id">>,
                                        <<"dns", "statistics">> }),
      useBulkCreateDNSRecords |-> Mutation("useBulkCreateDNSRecords",
                                           DnsServiceRecords.bulkCreateRecords,
                                           { <<"dns", "zones", "id">>,
                                             <<"dns", "records", "id">>,
                                             <<"dns", "statistics">> }) ]

UseDNSRecords2 ==
    [ useUpdateDNSRecord |-> Mutation("useUpdateDNSRecord", DnsServiceRecords.updateRecord,
                                      { <<"dns", "zones", "id">>,
                                        <<"dns", "records", "id">>,
                                        <<"dns", "records", "detail", "id">> }),
      useDeleteDNSRecord |-> Mutation("useDeleteDNSRecord", DnsServiceRecords.deleteRecord,
                                      { <<"dns", "zones", "id">>,
                                        <<"dns", "records", "id">>,
                                        <<"dns", "statistics">> }) ]

\* dns/hooks/useDNSStatistics.ts
UseDNSStatistics ==
    [ useDNSStatistics |-> Polled(<<"dns", "statistics">>,
                                  DnsServiceTemplates.getZoneStatistics),
      useDNSMetrics |-> Polled(<<"dns", "metrics">>, DnsServiceTemplates.getZoneStatistics) ]

\* dns/hooks/useDNSTemplates.ts
UseDNSTemplates ==
    [ useDNSTemplates |-> Query(<<"dns", "templates">>, DnsServiceTemplates.getTemplates),
      useAdminDNSTemplates |-> Query(<<"dns", "admin", "templates">>,
                                     DnsServiceAdmin.getAdminTemplates),
      useApplyDNSTemplate |-> Mutation("useApplyDNSTemplate",
                                       DnsServiceTemplates.applyTemplate,
                                       { <<"dns", "zones", "id">>,
                                         <<"dns", "records", "id">> }),
      useCreateDNSTemplate |-> Mutation("useCreateDNSTemplate",
                                        DnsServiceAdmin.createTemplate,
                                        { <<"dns", "admin", "templates">>,
                                          <<"dns", "templates">> }),
      useUpdateDNSTemplate |-> Mutation("useUpdateDNSTemplate",
                                        DnsServiceAdmin.updateTemplate,
                                        { <<"dns", "admin", "templates">>,
                                          <<"dns", "templates">> }) ]

UseDNSTemplates2 ==
    [ useDeleteDNSTemplate |-> Mutation("useDeleteDNSTemplate",
                                        DnsServiceAdmin.deleteTemplate,
                                        { <<"dns", "admin", "templates">>,
                                          <<"dns", "templates">> }) ]

\* dns/hooks/useDNSZones.ts
UseDNSZones ==
    [ useDNSZones |-> Query(<<"dns", "zones", "p">>, DnsService.getZones),
      useDNSZone |-> Query(<<"dns", "zones", "id">>, DnsService.getZone),
      useCreateDNSZone |-> Mutation("useCreateDNSZone", DnsService.createZone,
                                    {<<"dns", "zones">>, <<"dns", "statistics">>}),
      useUpdateDNSZone |-> Mutation("useUpdateDNSZone", DnsService.updateZone,
                                    {<<"dns", "zones", "id">>, <<"dns", "zones">>}),
      useDeleteDNSZone |-> Mutation("useDeleteDNSZone", DnsService.deleteZone,
                                    {<<"dns", "zones">>, <<"dns", "statistics">>}) ]

UseDNSZones2 ==
    [ useAllDNSZones |-> Query(<<"dns", "admin", "zones", "p">>,
                               DnsServiceAdmin.getAllZones),
      useAdminDNSZone |-> Query(<<"dns", "admin", "zones", "id">>,
                                DnsServiceAdmin.getZoneById),
      useActivateDNSZone |-> Mutation("useActivateDNSZone", DnsServiceAdmin.activateZone,
                                      {<<"dns">>}),
      useSuspendDNSZone |-> Mutation("useSuspendDNSZone", DnsServiceAdmin.suspendZone,
                                     {<<"dns">>}) ]

\* hosting/hooks/useCustomImages.ts
UseCustomImages ==
    [ useCustomImages |-> Query(<<"vps", "custom-images", "p">>,
                                VpsServiceImages.listCustomImages),
      useCustomImage |-> Query(<<"vps", "custom-images", "id">>,
                               VpsServiceImages.getCustomImage),
      useImageBuildLogs |-> Query(<<"vps", "custom-images", "id", "logs", "p">>,
                                  VpsServiceImages.getImageBuildLogs),
      useUploadCustomImage |-> Mutation("useUploadCustomImage",
                                        VpsServiceImages.uploadCustomImage,
                                        {<<"vps", "custom-images">>}),
      useRebuildCustomImage |-> Mutation("useRebuildCustomImage",
                                         VpsServiceImages.rebuildCustomImage,
                                         { <<"vps", "custom-images">>,
                                           <<"vps", "custom-images", "id">> }),
      useDeleteCustomImage |-> Removing(Mutation("useDeleteCustomImage",
                                                 VpsServiceImages.deleteCustomImage,
                                                 {<<"vps", "custom-images">>}),
                                        {<<"vps", "custom-images", "id">>}) ]

UseCustomImages2 ==
    [ useApproveCustomImage |-> Mutation("useApproveCustomImage",
                                         VpsServiceImages.approveOrRejectImage,
                                         { <<"vps", "custom-images">>,
                                           <<"vps", "custom-images", "id">> }) ]

\* hosting/hooks/useExecCommand.ts
UseExecCommand ==
    [ useExecCommand |-> Mutation("useExecCommand", VpsServiceInstances.execCommand, {}) ]

\* hosting/hooks/useServiceDomains.ts
UseServiceDomains ==
    [ useServiceDomains |-> Query(<<"vps", "service-domains", "id", "p">>,
                                  VpsServiceDomains.getServiceDomainsBySubscription),
      useCreateCustomDomain |-> Mutation("useCreateCustomDomain",
                                         VpsServiceDomains.createCustomDomain,
                                         {<<"vps", "service-domains", "id">>}),
      useUpdateServiceDomain |-> Mutation("useUpdateServiceDomain",
                                          VpsServiceDomains.updateServiceDomain,
                                          {<<"vps", "service-domains", "id">>}),
      useDeleteServiceDomain |-> Mutation("useDeleteServiceDomain",
                                          VpsServiceDomains.deleteServiceDomain,
                                          {<<"vps", "service-domains", "id">>}),
      useServiceDomainStatistics |-> Query(<<"vps", "service-domains", "statistics">>,
                                           VpsServiceDomains.getServiceDomainStatistics),
      useAutoDetectServices |-> Mutation("useAutoDetectServices",
                                         VpsServiceDomains.autoDetectServices,
                                         {<<"vps", "service-domains", "id">>}) ]

UseServiceDomains2 ==
    [ useFixNginxConfiguration |-> Mutation("useFixNginxConfiguration",
                                            VpsServiceDomains.fixNginxConfiguration,
                                            {<<"vps", "service-domains", "id">>}),
      useUpdateUrlsInContainerConfigs |-> Mutation(
                                              "useUpdateUrlsInContainerConfigs",
                                              VpsServiceDomains.updateUrlsInContainerConfigs,
                                              {<<"vps", "service-domains", "id">>}) ]

\* hosting/hooks/useVPSAdmin.ts
UseVPSAdmin ==
    [ usePendingVPSRequests |-> Query(<<"vps", "admin", "requests", "pending", "p">>,
                                      VpsServiceAdmin.getPendingRequests),
      useApproveVPSRequest |-> Mutation("useApproveVPSRequest",
                                        VpsServiceAdmin.approveRequest,
                                        { <<"vps", "admin", "requests">>,
                                          <<"vps", "admin", "subscriptions">> }),
      useRejectVPSRequest |-> Mutation("useRejectVPSRequest", VpsServiceAdmin.rejectRequest,
                                       {<<"vps", "admin", "requests">>}),
      useAllVPSSubscriptions |-> Polled(<<"vps", "admin", "subscriptions", "p">>,
                                        VpsServiceAdmin.getAllSubscriptions),
      useSuspendSubscription |-> Mutation("useSuspendSubscription",
                                          VpsServiceProvisioning.suspendSubscription,
                                          {<<"vps", "admin", "subscriptions">>}),
      useReactivateSubscription |-> Mutation("useReactivateSubscription",
                                             VpsServiceProvisioning.reactivateSubscription,
                                             {<<"vps", "admin", "subscriptions">>}) ]

UseVPSAdmin2 ==
    [ useTerminateSubscription |-> Mutation("useTerminateSubscription",
                                            VpsServiceProvisioning.terminateSubscription,
                                            {<<"vps", "admin", "subscriptions">>}),
      useMonitoringOverview |-> Polled(<<"vps", "admin", "monitoring", "overview">>,
                                       VpsServiceImages.getMonitoringOverview),
      useAlerts |-> Polled(<<"vps", "admin", "alerts", "p">>, VpsServiceImages.getAlerts) ]

\* hosting/hooks/useVPSControl.ts
UseVPSControl ==
    [ useStartContainer |-> Mutation("useStartContainer",
                                     VpsServiceInstances.startContainer,
                                     { <<"vps", "subscriptions", "id">>,
                                       <<"vps", "stats", "id">> }),
      useStopContainer |-> Mutation("useStopContainer", VpsServiceInstances.stopContainer,
                                    { <<"vps", "subscriptions", "id">>,
                                      <<"vps", "stats", "id">> }),
      useRebootContainer |-> Mutation("useRebootContainer",
                                      VpsServiceInstances.rebootContainer,
                                      { <<"vps", "subscriptions", "id">>,
                                        <<"vps", "stats", "id">> }) ]

\* hosting/hooks/useVPSPlans.ts
UseVPSPlans ==
    [ useVPSPlans |-> Query(<<"vps", "plans", "p">>, VpsService.getPlans),
      useVPSPlan |-> Query(<<"vps", "plans", "id">>, VpsService.getPlan),
      useAllVPSPlans |-> Query(<<"vps", "admin", "plans", "p">>, VpsService.getAllPlans),
      useCreateVPSPlan |-> Mutation("useCreateVPSPlan", VpsService.createPlan,
                                    {<<"vps", "admin", "plans">>, <<"vps", "plans">>}),
      useUpdateVPSPlan |-> Mutation("useUpdateVPSPlan", VpsService.updatePlan,
                                    {<<"vps", "admin", "plans">>, <<"vps", "plans">>}),
      useDeleteVPSPlan |-> Mutation("useDeleteVPSPlan", VpsService.deletePlan,
                                    {<<"vps", "admin", "plans">>, <<"vps", "plans">>}),
      useActivateVPSPlan |-> Mutation("useActivateVPSPlan", VpsService.activatePlan,
                                      {<<"vps", "admin", "plans">>, <<"vps", "plans">>}),
      useDeactivateVPSPlan |-> Mutation("useDeactivateVPSPlan", VpsService.deactivatePlan,
                                        {<<"vps", "admin", "plans">>, <<"vps", "plans">>}) ]

\* hosting/hooks/useVPSStats.ts
UseVPSStats ==
    [ useVPSStats |-> Polled(<<"vps", "stats", "id", "p">>,
                             VpsServiceInstances.getContainerStats),
      useVPSLogs |-> Query(<<"vps", "logs", "id", "p">>,
                           VpsServiceInstances.getContainerLogs),
      useVPSTimeline |-> Query(<<"vps", "timeline", "id">>, VpsServiceDocker.getTimeline) ]

\* hosting/hooks/useVPSSubscriptions.ts
UseVPSSubscriptions ==
    [ useMyVPSSubscriptions |-> Query(<<"vps", "subscriptions", "my", "p">>,
                                      VpsServiceSubscriptions.getMySubscriptions),
      useVPSSubscription |-> Query(<<"vps", "subscriptions", "id">>,
                                   VpsServiceSubscriptions.getSubscription),
      useRequestVPS |-> Mutation("useRequestVPS", VpsServiceSubscriptions.requestVPS,
                                 {<<"vps", "subscriptions">>}),
      useUpgradeSubscription |-> Mutation("useUpgradeSubscription",
                                          VpsServiceSubscriptions.upgradeSubscription,
                                          {<<"vps", "subscriptions">>}),
      useCancelSubscription |-> Mutation("useCancelSubscription",
                                         VpsServiceSubscriptions.cancelSubscription,
                                         {<<"vps", "subscriptions">>}) ]

\* invoices/hooks/useInvoices.ts
UseInvoices ==
    [ useInvoices |-> Query(<<"invoices", "p", "p", "p">>, InvoiceService.getAll),
      useInvoice |-> Query(<<"invoices", "id">>, InvoiceService.getById),
      useCreateInvoice |-> Mutation("useCreateInvoice", InvoiceService.create,
                                    {<<"invoices">>}),
      useUpdateInvoice |-> Mutation("useUpdateInvoice", InvoiceService.update,
                                    {<<"invoices">>}) ]

\* orders/hooks/useOrders.ts
UseOrders ==
    [ useOrders |-> Query(<<"orders", "p", "p", "p">>, OrderService.getAll),
      useOrder |-> Query(<<"orders", "id">>, OrderService.getById),
      useCreateOrder |-> Mutation("useCreateOrder", OrderService.create, {<<"orders">>}),
      useUpdateOrder |-> Storing(Mutation("useUpdateOrder", OrderService.update,
                                          {<<"orders">>}),
                                 {<<"orders", "id">>}),
      useUpdateOrderStatus |-> Storing(Mutation("useUpdateOrderStatus",
                                                OrderService.updateStatus,
                                                { <<"orders">>,
                                                  <<"orders", "id", "timeline">> }),
                                       {<<"orders", "id">>}),
      useDeleteOrder |-> Mutation("useDeleteOrder", OrderService.delete, {<<"orders">>}),
      useOrderTimeline |-> Query(<<"orders", "id", "timeline">>, OrderService.getTimeline),
      useCustomerOrders |-> Query(<<"orders", "customer", "id", "p", "p">>,
                                  OrderService.getCustomerOrders) ]

\* products/hooks/useProducts.ts
UseProducts ==
    [ useProducts |-> Query(<<"products", "p", "p">>, ProductService.getAll),
      useProduct |-> Query(<<"product", "slug">>,
                           ProductService.getBySlug \o ProductService.getById),
      useCategories |-> Query(<<"categories">>, ProductServiceCategories.getCategories),
      useFeaturedProducts |-> Query(<<"products", "featured", "p">>,
                                    ProductService.getFeaturedProducts),
      useCategoryProducts |-> Query(<<"category", "id", "products", "p", "p">>,
                                    ProductServiceCategories.getCategoryProducts),
      useSearchProducts |-> Query(<<"products", "search", "p">>,
                                  ProductService.searchProducts),
      useProductStatistics |-> Query(<<"products", "statistics">>,
                                     ProductService.getProductStatistics),
      useProductsForAdmin |-> Query(<<"products", "admin", "p", "p">>,
                                    ProductService.getAll) ]

\* products/hooks/useQuotes.ts
UseQuotes ==
    [ useQuoteRequests |-> Query(<<"quote-requests", "p", "p">>,
                                 QuoteService.getQuoteRequests),
      useQuoteRequest |-> Query(<<"quote-request", "id">>, QuoteService.getQuoteRequest),
      useCreateQuoteRequest |-> Mutation("useCreateQuoteRequest",
                                         QuoteService.createQuoteRequest,
                                         {<<"quote-requests">>}),
      useUpdateQuoteRequest |-> Mutation("useUpdateQuoteRequest",
                                         QuoteService.updateQuoteRequest,
                                         {<<"quote-request", "id">>, <<"quote-requests">>}),
      useDeleteQuoteRequest |-> Mutation("useDeleteQuoteRequest",
                                         QuoteService.deleteQuoteRequest,
                                         {<<"quote-requests">>}),
      useApproveQuoteRequest |-> Mutation("useApproveQuoteRequest",
                                          QuoteService.approveQuoteRequest,
                                          {<<"quote-request", "id">>, <<"quote-requests">>}),
      useAcceptQuoteRequest |-> Mutation("useAcceptQuoteRequest",
                                         QuoteService.acceptQuoteRequest,
                                         {<<"quote-request", "id">>, <<"quote-requests">>}),
      useRejectQuoteRequest |-> Mutation("useRejectQuoteRequest",
                                         QuoteService.rejectQuoteRequest,
                                         {<<"quote-request", "id">>, <<"quote-requests">>}),
      useServiceRequests |-> Query(<<"service-requests", "p", "p">>,
                                   QuoteServiceServices.getServiceRequests) ]

\* reports/hooks/useReports.ts
ReportsUseReports ==
    [ useAdminDashboard |-> Query(<<"dashboard", "admin", "p">>,
                                  ReportService.getAdminDashboard),
      useCorporateDashboard |-> Query(<<"dashboard", "corporate", "p">>,
                                      ReportService.getCorporateDashboard),
      useCustomerDashboard |-> Query(<<"dashboard", "customer", "p">>,
                                     ReportService.getCustomerDashboard),
      useTicketsByStatus |-> Query(<<"reports", "tickets", "by-status", "p", "p">>,
                                   ReportService.getTicketsByStatus),
      useTicketsByPriority |-> Query(<<"reports", "tickets", "by-priority", "p", "p">>,
                                     ReportService.getTicketsByPriority),
      useTicketsByCategory |-> Query(<<"reports", "tickets", "by-category", "p", "p">>,
                                     ReportService.getTicketsByCategory),
      useTicketsByAgent |-> Query(<<"reports", "tickets", "by-agent", "p", "p">>,
                                  ReportService.getTicketsByAgent),
      useTicketsByTeam |-> Query(<<"reports", "tickets", "by-team", "p", "p">>,
                                 ReportService.getTicketsByTeam),
      useResponseTimeMetrics |-> Query(<<"reports", "tickets", "response-time", "p", "p">>,
                                       ReportService.getResponseTimeMetrics),
      useResolutionTimeMetrics |-> Query(<<"reports", "tickets", "resolution-time", "p", "p">>,
                                         ReportService.getResolutionTimeMetrics),
      useOpenVsClosedReport |-> Query(<<"reports", "tickets", "open-vs-closed", "p">>,
                                      ReportServiceCustomers.getOpenVsClosedReport),
      useCustomersByStatus |-> Query(<<"reports", "customers", "by-status", "p", "p">>,
                                     ReportServiceCustomers.getCustomersByStatus),
      useCustomersByType |-> Query(<<"reports", "customers", "by-type", "p", "p">>,
                                   ReportServiceCustomers.getCustomersByType),
      useCustomerGrowth |-> Query(<<"reports", "customers", "growth", "p">>,
                                  ReportServiceCustomers.getCustomerGrowth),
      useKYCStatusReport |-> Query(<<"reports", "customers", "kyc-status", "p", "p">>,
                                   ReportServiceCustomers.getKYCStatusReport),
      useOrdersByStatus |-> Query(<<"reports", "orders", "by-status", "p", "p">>,
                                  ReportServiceCustomers.getOrdersByStatus),
      useOrderValueMetrics |-> Query(<<"reports", "orders", "value-metrics", "p", "p">>,
                                     ReportServiceCustomers.getOrderValueMetrics) ]

ReportsUseReports2 ==
    [ useMonthlyOrders |-> Query(<<"reports", "orders", "monthly", "p">>,
                                 ReportServiceOrders.getMonthlyOrders),
      useProductPerformance |-> Query(<<"reports", "orders", "product-performance", "p", "p", "p">>,
                                      ReportServiceOrders.getProductPerformance),
      useOrdersByCustomer |-> Query(<<"reports", "orders", "by-customer", "p", "p", "p">>,
                                    ReportServiceOrders.getOrdersByCustomer),
      useExportReport |-> Mutation("useExportReport", ReportServiceOrders.exportReport,
                                   {<<"exports">>}),
      useDownloadExport |-> Mutation("useDownloadExport",
                                     ReportServiceOrders.downloadExport, {}) ]

\* tickets/hooks/useEmailAccounts.ts
UseEmailAccounts ==
    [ useEmailAccounts |-> Query(<<"email-accounts">>, TicketsApiEmail.getEmailAccounts),
      useCreateEmailAccount |-> Mutation("useCreateEmailAccount",
                                         TicketsApiEmail.createEmailAccount,
                                         {<<"email-accounts">>}),
      useUpdateEmailAccount |-> Mutation("useUpdateEmailAccount",
                                         TicketsApiEmail.updateEmailAccount,
                                         {<<"email-accounts">>}),
      useDeleteEmailAccount |-> Mutation("useDeleteEmailAccount",
                                         TicketsApiEmail.deleteEmailAccount,
                                         {<<"email-accounts">>}),
      useTestEmailConnection |-> Mutation("useTestEmailConnection",
                                          TicketsApiEmail.testEmailConnection, {}),
      useSyncEmailAccount |-> Mutation("useSyncEmailAccount",
                                       TicketsApiEmail.syncEmailAccount,
                                       {<<"email-accounts">>}) ]

\* tickets/hooks/useTemplates.ts
UseTemplates ==
    [ useTemplates |-> Query(<<"templates", "list", "p">>, TemplateService.getTemplates),
      useTemplate |-> Query(<<"templates", "detail", "id">>, TemplateService.getTemplate),
      useTemplateVariables |-> Query(<<"templates", "variables">>,
                                     TemplateService.getAvailableVariables),
      usePopularTemplates |-> Query(<<"templates", "popular">>,
                                    TemplateService.getPopularTemplates),
      useCreateTemplate |-> Mutation("useCreateTemplate", TemplateService.createTemplate,
                                     {<<"templates", "list">>}),
      useUpdateTemplate |-> Storing(Mutation("useUpdateTemplate",
                                             TemplateService.updateTemplate,
                                             {<<"templates", "list">>}),
                                    {<<"templates", "detail", "id">>}),
      useDeleteTemplate |-> Mutation("useDeleteTemplate", TemplateService.deleteTemplate,
                                     {<<"templates">>}),
      usePreviewTemplate |-> Mutation("usePreviewTemplate", TemplateService.previewTemplate,
                                      {}),
      useValidateTemplate |-> Mutation("useValidateTemplate",
                                       TemplateService.validateTemplate, {}) ]

\* tickets/hooks/useTickets.ts
UseTickets ==
    [ useTickets |-> Query(<<"tickets", "p", "p", "p", "p">>, TicketService.getAll),
      useTicket |-> Query(<<"tickets", "id">>, TicketService.getById),
      useCreateTicket |-> Mutation("useCreateTicket", TicketService.create, {<<"tickets">>}),
      useUpdateTicket |-> Mutation("useUpdateTicket", TicketService.update, {<<"tickets">>}),
      useDeleteTicket |-> Mutation("useDeleteTicket", TicketServiceWork.delete,
                                   {<<"tickets">>}),
      useTicketCategories |-> Query(<<"ticket-categories">>,
                                    TicketServiceDetails.getCategories),
      useBulkUpdateStatus |-> Mutation("useBulkUpdateStatus",
                                       TicketServiceDetails.bulkUpdateStatus,
                                       {<<"tickets">>}) ]

\* tickets/hooks/useWatchers.ts
UseWatchers ==
    [ useWatchers |-> Query(<<"tickets", "id", "watchers">>, Reads({"watchers"})),
      useWatchers_addWatcher |-> Mutation("useWatchers_addWatcher", Writes({"watchers"}),
                                          {<<"tickets", "id", "watchers">>}),
      useWatchers_removeWatcher |-> Mutation("useWatchers_removeWatcher",
                                             Writes({"watchers"}),
                                             {<<"tickets", "id", "watchers">>}),
      useWatchers_updatePreferences |-> Mutation("useWatchers_updatePreferences",
                                                 Reads({"users"}) \o Writes({"watchers"}),
                                                 {<<"tickets", "id", "watchers">>}),
      useUsers |-> Query(<<"users", "p">>, Reads({"users"})),
      useIsWatching |-> Query(<<"tickets", "id", "watchers", "is-watching", "id">>,
                              Reads({"watchers"})),
      useWatcherStatistics |-> Query(<<"tickets", "id", "watchers", "statistics">>,
                                     Reads({"watchers"})) ]

\* shared/hooks/useNotifications.ts
UseNotifications ==
    [ useNotifications |-> Pushed(Query(<<"notifications", "list", "p", "p", "p">>,
                                        NotificationsApi.getNotifications)),
      useUnreadNotificationCount |-> Pushed(Polled(
                                                <<"notifications", "unread-count">>,
                                                NotificationsApi.getUnreadCount)),
      useMarkNotificationRead |-> Mutation("useMarkNotificationRead",
                                           NotificationsApi.markRead, {<<"notifications">>}) ]

=============================================================================
