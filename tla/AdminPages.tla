----------------------------- MODULE AdminPages ------------------------------
(***************************************************************************)
(* The pages of modules/admin: what each mounts and offers, and where an   *)
(* operation takes the user.                                               *)
(***************************************************************************)
EXTENDS Components

\* admin/pages/hosting
PendingVPSRequestsPage ==
    Screen({Watching(UseVPSAdmin.usePendingVPSRequests)},
           {UseVPSAdmin.useApproveVPSRequest, UseVPSAdmin.useRejectVPSRequest})

AllVPSSubscriptionsPage ==
    Screen({UseVPSAdmin.useAllVPSSubscriptions, UseVPSAdmin2.useMonitoringOverview},
           {ReportsUseReports2.useExportReport, ReportsUseReports2.useDownloadExport})

AdminVPSSubscriptionDetailPage ==
    Embed(Screen({ Query(<<"vps", "admin", "subscription", "id">>,
                         VpsServiceAdmin.getSubscriptionAdmin),
                   Polled(<<"vps", "admin", "subscription", "id", "stats">>,
                          VpsServiceProvisioning.getSubscriptionStatsAdmin) },
                 {}),
          {VPSDeploy})

VPSMonitoringPage ==
    Screen({UseVPSAdmin2.useMonitoringOverview, UseVPSAdmin2.useAlerts}, {})

AdminCustomImagesPage ==
    Screen({UseCustomImages.useCustomImages},
           {UseCustomImages2.useApproveCustomImage, UseCustomImages.useDeleteCustomImage})

VPSPlansAdminPage ==
    Screen({UseVPSPlans.useAllVPSPlans},
           { UseVPSPlans.useCreateVPSPlan,
             UseVPSPlans.useUpdateVPSPlan,
             UseVPSPlans.useDeleteVPSPlan,
             UseVPSPlans.useActivateVPSPlan,
             UseVPSPlans.useDeactivateVPSPlan })

\* admin/pages/settings
GeneralSettingsPage ==
    Screen({AdminUseSettings.useSettingsByCategory},
           {AdminUseSettings.useBatchUpdateSettings, AdminUseSettings.useResetSetting})

\* admin/pages
RoleManagementPage ==
    Embed(Screen({UseRoles.useRoles}, {UseRoles.useDeleteRole}), {PermissionMatrix})

UserManagementPage ==
    Embed(Screen({UseUsers.useUsers},
                 {UseUsers.useDeactivateUser, UseUsers.useActivateUser}),
          {CreateUserDialog})

SystemSettingsPage ==
    SettingsPanel

\* admin/pages/roles
PermissionListPage ==
    Screen({UseRoles.usePermissions},
           { Mutation("PermissionListPage.deletePermission", SettingsApi.deletePermission,
                      {<<"permissions">>}) })

\* admin/pages/settings
EmailTemplatesPage ==
    Screen({Query(<<"email-templates">>, Missing)},
           {Mutation("EmailTemplatesPage.preview", Missing, {})})

\* admin/pages
SystemOverviewPage ==
    Screen({ UseSystem.useSystemOverview,
             UseSystem.useSystemHealth,
             UseSystem.useSystemStats,
             UseSystem.useDetailedHealth,
             UseSystem.useRecentActivity,
             UseSystem.useUsersByRole },
           {})

\* admin/pages/overview
SystemHealthPage ==
    Screen({UseSystem.useDetailedHealth, UseSystem.useSystemHealth}, {})

PerformanceMetricsPage ==
    Screen({ UseSystem.useSystemStats,
             UseSystem.useDetailedHealth,
             AdminUseReports.usePerformanceReport },
           {})

SystemAlertsPage ==
    Screen({UseSystem.useSystemAlerts},
           { Mutation("SystemAlertsPage.resolve", SystemServiceAlerts.resolveAlert,
                      {<<"admin", "system", "alerts">>}),
             Mutation("SystemAlertsPage.acknowledge", SystemServiceAlerts.acknowledgeAlert,
                      {<<"admin", "system", "alerts">>}) })

\* admin/pages/users
UserCreatePage ==
    Screen({}, {LeadsLate(UseUsers.useCreateUser, "/admin/users")})

UserDetailsPage ==
    Screen({UseUsers.useUser, UseUsers2.useUserStats, UseUsers2.useUserActivity}, {})

UserEditPage ==
    Screen({UseUsers.useUser},
           { LeadsLate(UseUsers.useUpdateUser, "/admin/users/:id"),
             LeadsLate(UseUsers.useDeleteUser, "/admin/users"),
             UseUsers.useActivateUser,
             UseUsers.useDeactivateUser,
             UseUsers.useUnlockAccount,
             UseUsers.useForcePasswordReset })

UserRolesPage ==
    Screen({UseUsers.useUser, UseRoles.useRoles},
           {LeadsLate(UseUsers.useAssignRoles, "/admin/users/:id")})

UserSessionsPage ==
    Screen({UseUsers.useUser, UseUsers2.useUserSessions},
           {UseUsers2.useRevokeSession, UseUsers2.useRevokeAllSessions})

UserActivityPage ==
    Screen({UseUsers.useUser, UseUsers2.useUserActivity}, {})

\* admin/pages/roles
RoleCreatePage ==
    Screen({UseRoles.usePermissions}, {LeadsLate(UseRoles.useCreateRole, "/admin/roles")})

RoleDetailsPage ==
    Screen({UseRoles.useRole}, {LeadsLate(UseRoles.useDeleteRole, "/admin/roles")})

RoleEditPage ==
    Screen({UseRoles.useRole, UseRoles.usePermissions},
           { LeadsLate(Then(UseRoles.useUpdateRole,
                            Mutation("RoleEditPage.permissions",
                                     RoleService.updateRolePermissions, {})),
                       "/admin/roles/:id") })

RolePermissionsPage ==
    Screen({UseRoles.useRole, UseRoles.usePermissions},
           { LeadsLate(Mutation("RolePermissionsPage.submit",
                                RoleService.updateRolePermissions, {}),
                       "/admin/roles/:id") })

\* admin/pages/products
AdminProductListPage ==
    Screen({Query(<<"admin-products", "p", "p", "p", "p", "p">>, Reads({"products"}))},
           {Mutation("ProductListPage.delete", Writes({"products"}), Everything)})

AdminProductFormPage ==
    Screen({ Query(<<"product-categories">>, Reads({"productCategories"})),
             Query(<<"product", "id">>, Reads({"products"})) },
           { LeadsLate(Mutation("ProductFormPage.mutation", Writes({"products"}), {}),
                       "/admin/products") })

AdminCategoryManagementPage ==
    Screen({Query(<<"product-categories">>, Reads({"productCategories"}))},
           { Mutation("CategoryManagementPage.save", Writes({"productCategories"}),
                      {<<"product-categories">>}),
             Mutation("CategoryManagementPage.delete", Writes({"productCategories"}),
                      {<<"product-categories">>}) })

\* admin/pages/settings
SecuritySettingsPage ==
    Screen({AdminUseSettings.useSettingsByCategory},
           {AdminUseSettings.useBatchUpdateSettings, AdminUseSettings.useResetSetting})

EmailConfigPage ==
    Screen({AdminUseSettings.useSettingsByCategory},
           { AdminUseSettings.useBatchUpdateSettings,
             AdminUseSettings.useResetSetting,
             Mutation("EmailConfigPage.test", AdminSettingsServiceByKey.testEmailConfig, {}) })

EmailSendHistoryPage ==
    Screen({Query(<<"email-history">>, Missing)}, {})

EmailBouncesPage ==
    Screen({Query(<<"email-bounces">>, Missing)},
           {Mutation("EmailBouncesPage.run", Missing, {})})

TicketSettingsPage ==
    Screen({AdminUseSettings.useSettingsByCategory},
           {AdminUseSettings.useBatchUpdateSettings, AdminUseSettings.useResetSetting})

NotificationGroupsPage ==
    Screen({Query(<<"notification-groups">>, Missing)},
           {Mutation("NotificationGroupsPage.save", Missing, {})})

SMSConfigPage ==
    Screen({AdminUseSettings.useSettingsByCategory},
           {AdminUseSettings.useBatchUpdateSettings, AdminUseSettings.useResetSetting})

StorageConfigPage ==
    Screen({AdminUseSettings.useSettingsByCategory},
           { AdminUseSettings.useBatchUpdateSettings,
             AdminUseSettings.useResetSetting,
             Mutation("StorageConfigPage.test", AdminSettingsServiceByKey.testStorageConfig,
                      {}) })

BackupSettingsPage ==
    Screen({AdminUseSettings.useSettingsByCategory},
           {AdminUseSettings.useBatchUpdateSettings, AdminUseSettings.useResetSetting})

\* admin/pages
ActivityLogsPage ==
    Screen({UseActivity.useActivityLogs, UseActivity.useActivityStats}, {})

AuditLogsPage ==
    Screen({UseAudit.useAuditLogs}, {})

SecurityLogsPage ==
    Screen({UseAudit.useAuditLogs}, {})

\* admin/pages/logs
SystemLogsPage ==
    Screen({UseSystem.useSystemLogs}, {})

UserActivityLogsPage ==
    Screen({UseUsers.useUsers, UseAudit.useUserAuditLogs}, {})

\* admin/pages
CustomerManagementPage ==
    Screen({UseCustomers.useCustomers}, {})

\* admin/pages/customers
AdminCustomerCreatePage ==
    Landing(CustomerForm, "/admin/customers")

AdminCustomerDetailsPage ==
    Embed(Screen({UseCustomers.useCustomer},
                 {UseCustomers.useActivateCustomer, UseCustomers.useSuspendCustomer}),
          {ApprovalWorkflow, CustomerDetail, KYCPanel, StatusHistory, StatusTransition})

AdminCustomerEditPage ==
    Landing(CustomerForm, "/admin/customers/:id")

AdminCustomerKYCPage ==
    Embed(Screen({ UseCustomers.useCustomer,
                   UseKYC.useCustomerKYCStatus,
                   UseKYC.useKYCDocuments },
                 {UseKYC.useVerifyKYCDocument}),
          {KYCPanel})

\* admin/pages
ReportsPage ==
    Screen({ AdminUseReports.useUserReport,
             AdminUseReports.useActivityReport,
             AdminUseReports.useSecurityReport,
             AdminUseReports.usePerformanceReport },
           {AdminUseReports.useExportReport})

\* admin/pages/reports
UserReportsPage ==
    Screen({AdminUseReports.useUserReport}, {AdminUseReports.useExportReport})

ActivityReportsPage ==
    Screen({AdminUseReports.useActivityReport}, {AdminUseReports.useExportReport})

SecurityReportsPage ==
    Screen({AdminUseReports.useSecurityReport}, {AdminUseReports.useExportReport})

PerformanceReportsPage ==
    Screen({AdminUseReports.usePerformanceReport}, {AdminUseReports.useExportReport})

\* admin/pages/support
SupportDashboardPage ==
    Screen({UseSupport.useSupportStats}, {})

SupportGroupsPage ==
    Screen({UseSupport.useSupportGroups},
           { UseSupport.useCreateSupportGroup,
             UseSupport.useUpdateSupportGroup,
             UseSupport.useDeleteSupportGroup })

AdminTicketCategoriesPage ==
    Screen({UseSupport2.useTicketCategories},
           { UseSupport2.useCreateTicketCategory,
             UseSupport2.useUpdateTicketCategory,
             UseSupport2.useDeleteTicketCategory })

AutomationRulesPage ==
    Screen({UseSupport2.useAutomationRules},
           { UseSupport2.useCreateAutomationRule,
             UseSupport3.useUpdateAutomationRule,
             UseSupport3.useDeleteAutomationRule,
             UseSupport3.useToggleAutomationRule })

\* admin/pages
TicketsPage ==
    Screen({UseTickets.useTickets}, {})

\* admin/pages/maintenance
MaintenanceDashboardPage ==
    Screen({UseMaintenance.useMaintenanceStats}, {})

BackupManagementPage ==
    Screen({UseMaintenance.useBackupHistory},
           { UseMaintenance.useCreateBackup,
             UseMaintenance.useDeleteBackup,
             UseMaintenance.useDownloadBackup,
             UseMaintenance.useRestoreBackup })

CacheManagementPage ==
    Screen({UseMaintenance.useCacheStats},
           { UseMaintenance.useClearAllCache,
             UseMaintenance.useClearCacheByPattern,
             UseMaintenance2.useWarmCache })

DataCleanupPage ==
    Screen({UseMaintenance2.useCleanupStats},
           {UseMaintenance2.usePreviewCleanup, UseMaintenance2.useRunCleanup})

MigrationsPage ==
    Screen({UseMaintenance2.useMigrations, UseMaintenance2.useCurrentMigration},
           {UseMaintenance2.useUpgradeMigrations, UseMaintenance2.useDowngradeMigrations})

=============================================================================
